---- MODULE Spec2Model ----
(***************************************************************************)
(* jc-taxes: generation of the yearly tax GeoJSON                          *)
(* (src/src/jc_taxes/geojson_yearly.py).                                   *)
(*                                                                         *)
(* One run of generate_yearly_geojson is a sequence of steps; pc is the    *)
(* position of the run in the function.  Data frames are sets of records,  *)
(* dicts are functions.  Python floats are exact rationals <<n, d>> (d > 0,*)
(* lowest terms), so "equal within floating-point tolerance" reads as      *)
(* equality; round() looks at the double that holds the rational.          *)
(* A geometry is a set of parts <<cell, sys>>: the cell of the             *)
(* map it covers and the coordinate system its coordinates are written in  *)
(* ("ft": NJ State Plane feet, "deg": WGS84 degrees; "org": degrees read as  *)
(* feet and taken to WGS84, a place by the origin of the projection;       *)
(* "off": feet read as degrees and taken to NJSP, which lies outside the   *)
(* domain of the projection: inf).                                         *)
(***************************************************************************)
EXTENDS Integers, Sequences, FiniteSets, TLC

VARIABLES
    pc,              \* position of the run in generate_yearly_geojson
    aggregate,       \* argument: aggregation level
    year,            \* argument: tax year
    payments_exists, \* DATA / "payments.parquet" exists
    ledger,          \* rows of payments.parquet
    parcels,         \* parcels data frame
    payments,        \* payments data frame, rows of the selected year
    pay_agg,         \* per-key sums of the ledger (the pay_agg data frame)
    pay_dict,        \* pay_dict: join key -> [Paid, Billed]
    redistributions, \* history: omnibus sources redistributed, in order
    lot_gdf,         \* lot rows returned by _build_lot_gdf
    cb_gdf,          \* census-block registry (load_jc_census_blocks)
    overlay,         \* lot x census-block overlay fragments
    cb_result,       \* census-block result rows
    ward_result,     \* ward result rows
    features,        \* features of the FeatureCollection
    files,           \* output directory: file name -> features written
    result,          \* value returned to the caller
    stderr,          \* messages written by err(), in order
    hole_runs,       \* _remove_small_holes: the argument, then each result
    name_runs,       \* successive runs: their arguments and the file written
    extract,         \* extract_payments: its cache files, position, records and output
    before,          \* history: the output directory when the run started
    search,          \* search_by_block: the server, the page, the requests and the accounts yielded
    client,          \* HLSClient: the cache directory, the clock and the last call of get_account_details
    enum             \* enumerate_accounts: the index file, the server and the runs so far

\* the variables of a run of generate_yearly_geojson
run_vars == <<pc, aggregate, year, payments_exists, ledger, parcels, payments, pay_agg,
              pay_dict, redistributions, lot_gdf, cb_gdf, overlay, cb_result,
              ward_result, features, files, result, stderr>>

\* the variables of the functions checked on their own
other_vars == <<hole_runs, name_runs, extract, before, search, client, enum>>

vars == <<run_vars, other_vars>>

-----------------------------------------------------------------------------
(* Bounds of the model.                                                    *)

MaxParcels == 2
MaxRows == 2

-----------------------------------------------------------------------------
(* Exact rational arithmetic for the float columns.                        *)

\* None / NaN: of a string column, of a float column, of a geometry
NULL == "NULL"
None == <<>>
NoGeometry == {<<0, "none">>}

Abs(n) == IF n < 0 THEN -n ELSE n

RECURSIVE GCD(_, _)
GCD(a, b) == IF b = 0 THEN a ELSE GCD(b, a % b)

\* the value of a division by zero (ZeroDivisionError, inf, nan); it
\* propagates through every later operation
DivFault == <<0, 0>>

\* float("nan"): it propagates through the arithmetic, and every comparison
\* with it is false
NaN == <<0, 0>>

Rat(n, d) ==
    LET g == GCD(Abs(n), d)
    IN  IF d = 0 THEN DivFault
        ELSE IF n = 0 THEN <<0, 1>> ELSE <<n \div g, d \div g>>

RInt(n) == <<n, 1>>
RZero == <<0, 1>>
ROne == <<1, 1>>
RAdd(a, b) == Rat(a[1] * b[2] + b[1] * a[2], a[2] * b[2])
RMul(a, b) == Rat(a[1] * b[1], a[2] * b[2])
\* a / b for b >= 0
RDiv(a, b) == Rat(a[1] * b[2], a[2] * b[1])
RLt(a, b) == a[1] * b[2] < b[1] * a[2]
RPos(a) == a[1] > 0

RECURSIVE RSum(_, _)
\* sum of f[x] over the finite set S
RSum(f, S) ==
    IF S = {} THEN RZero
    ELSE LET x == CHOOSE y \in S : TRUE
         IN  RAdd(f[x], RSum(f, S \ {x}))

RECURSIVE FloatBits(_, _, _, _)
\* binary long division of rem / d (0 <= rem < d) for k more bits, last being
\* the bit before them; then the rounding of what is left to the nearest
\* double, ties to the even mantissa: 1 the double is above the quotient,
\* -1 below, 0 the quotient is a double
FloatBits(rem, d, k, last) ==
    IF k = 0
    THEN IF rem = 0 THEN 0
         ELSE IF 2 * rem > d THEN 1
         ELSE IF 2 * rem < d THEN -1
         ELSE IF last = 1 THEN 1 ELSE -1
    ELSE LET b == IF 2 * rem >= d THEN 1 ELSE 0
         IN  FloatBits(2 * rem - b * d, d, k - 1, b)

RECURSIVE FloatSide(_, _)
\* the double that holds n / d (n, d > 0) against n / d itself: the quotient
\* is brought into [1, 2) by powers of two, which a double holds exactly, and
\* a double keeps 52 bits after the leading one
FloatSide(n, d) ==
    IF n >= 2 * d THEN FloatSide(n, 2 * d)
    ELSE IF n < d THEN FloatSide(2 * n, d)
    ELSE FloatBits(n - d, d, 52, 1)

\* round(x, k) of Python for scale = 10^k, x being the double nearest to the
\* rational: the nearest multiple of 1/scale of the double's own value.  A
\* decimal tie that a double holds exactly goes to the even multiple; one
\* that it does not goes to the side on which the double lies.
RoundTo(x, scale) ==
    LET num  == x[1] * scale
        q    == num \div x[2]
        r    == num % x[2]
        side == FloatSide(Abs(x[1]), x[2])
        up   == \/ 2 * r > x[2]
                \/ /\ 2 * r = x[2]
                   /\ \/ side = 0 /\ q % 2 = 1
                      \/ side = 1 /\ x[1] > 0
                      \/ side = -1 /\ x[1] < 0
    IN  IF x = DivFault THEN x ELSE Rat(IF up THEN q + 1 ELSE q, scale)

Round2(x) == RoundTo(x, 100)
Round1(x) == RoundTo(x, 10)

-----------------------------------------------------------------------------
(* The map.  Cells are the regions cut out by all boundaries; CellArea is  *)
(* the planar area of each in square feet.                                 *)

Cells == 1..13
CellArea == <<2, 1, 3, 1, 2, 1, 1, 1, 2, 1, 1, 199999, 200000>>

\* streets, 40 to 60 ft wide, that no lot covers: each is cut along its
\* middle into two halves, halves[i] running along the cell sides[i]
Streets == { [halves |-> <<10, 11>>, sides |-> <<6, 7>>] }

\* land that no lot covers and that the cells of ring surround (a courtyard,
\* a park): a shape covering the ring and not the cell has it as a hole
Enclosures == { [cell |-> 12, ring |-> {1, 2}],
                [cell |-> 13, ring |-> {2, 3}] }

Sys == {"ft", "deg", "org", "off"}

\* a shape drawn over the cells cs with coordinates written in system s
Shape(cs, s) == {<<c, s>> : c \in cs}

\* njsp_to_wgs84.transform on every coordinate: right for feet; degrees read
\* as feet are a few feet from the origin of the projection and come out as
\* the degrees of that place; inf stays inf
ToWgs84(geom) ==
    {<<p[1], CASE p[2] = "ft"  -> "deg"
               [] p[2] = "off" -> "off"
               [] OTHER        -> "org">> : p \in geom}

\* wgs84_to_njsp.transform / to_crs("EPSG:3424") on every coordinate: right
\* for degrees; the place by the origin goes back to the few feet it came
\* from, which are the numbers of the degrees; feet read as degrees (a
\* latitude of 700000) are outside the domain of the projection, for which
\* pyproj returns inf
ToNjsp(geom) ==
    {<<p[1], CASE p[2] = "deg" -> "ft"
               [] p[2] = "org" -> "deg"
               [] OTHER        -> "off">> : p \in geom}

\* X coordinate of a part: NJSP x is 400k-700k, WGS84 x for NJ is about -74,
\* that of the origin of the projection about -76; inf is above every number
XOf(p) ==
    CASE p[2] = "ft"  -> 600000
      [] p[2] = "deg" -> -74
      [] p[2] = "org" -> -76
      [] OTHER        -> 2147483647

\* sum of the planar areas of the cells cs
RECURSIVE CellsArea(_)
CellsArea(cs) ==
    IF cs = {} THEN 0
    ELSE LET c == CHOOSE x \in cs : TRUE
         IN  CellArea[c] + CellsArea(cs \ {c})

\* geom.area of a geometry held in feet (after is_njsp, a transform to NJSP
\* or to_crs("EPSG:3424"); the code takes no area of coordinates in
\* degrees): the cells its parts cover; nan as soon as one part has
\* coordinates that are not finite (inf - inf in the ring sums)
Area(geom) ==
    IF \E p \in geom : p[2] = "off" THEN NaN
    ELSE RInt(CellsArea({p[1] : p \in {q \in geom : q[2] = "ft"}}))

\* shapely.ops.unary_union(geoms)
RECURSIVE unary_union(_)
unary_union(geoms) ==
    IF geoms = {} THEN {}
    ELSE LET g == CHOOSE x \in geoms : TRUE
         IN  g \cup unary_union(geoms \ {g})

\* polygon intersection of two geometries in the same (planar) system
Intersection(a, b) == a \cap b

-----------------------------------------------------------------------------
(* Program constants.                                                      *)

OMNIBUS_LOT_GROUPS ==
    << [source |-> "18702-29",
        lots   |-> <<"18702-27", "18702-28", "18702-29">>] >>

AGGREGATE_CHOICES == {"block", "census-block", "lot", "unit", "ward"}

SUFFIX_MAP ==
    [a \in AGGREGATE_CHOICES |->
        CASE a = "unit"         -> "-units"
          [] a = "block"        -> "-blocks"
          [] a = "lot"          -> "-lots"
          [] a = "census-block" -> "-census-blocks"
          [] a = "ward"         -> "-wards"]

-----------------------------------------------------------------------------
(* Inputs: what the files read by a run may hold.                          *)

\* tax years of the ledger, and the years runs are asked for
Years == {2023, 2024}
RunYears == {2024}

\* rows of payments.parquet (written by extract_payments)
LedgerCatalogue ==
    { [AccountNumber |-> 1, Block |-> "18702", Lot |-> "29", Qualifier |-> "X",
       Year |-> 2024, Billed |-> 126000, Paid |-> 120000],
      [AccountNumber |-> 2, Block |-> "18702", Lot |-> "27 ", Qualifier |-> "",
       Year |-> 2024, Billed |-> 700, Paid |-> 600],
      [AccountNumber |-> 3, Block |-> "100", Lot |-> "5", Qualifier |-> "C0001",
       Year |-> 2024, Billed |-> 1000, Paid |-> 1000],
      [AccountNumber |-> 4, Block |-> "100", Lot |-> "5", Qualifier |-> "C0002",
       Year |-> 2024, Billed |-> 3500, Paid |-> 3000],
      [AccountNumber |-> 5, Block |-> "100", Lot |-> "6", Qualifier |-> "",
       Year |-> 2024, Billed |-> 0, Paid |-> 0],
      [AccountNumber |-> 6, Block |-> "100", Lot |-> "5", Qualifier |-> "C0002",
       Year |-> 2024, Billed |-> 1000, Paid |-> 1000],
      [AccountNumber |-> 1, Block |-> "18702", Lot |-> "29", Qualifier |-> "X",
       Year |-> 2023, Billed |-> 90000, Paid |-> 90000] }

\* rows of the parcels file; enc is the encoding of the geometry column
\* ("wkb": bytes, "obj": parsed geometry, "geojson": text in geo_shape,
\* "none": no geometry, "unknown": a value that is neither bytes, a geometry
\* nor text, "corrupt": bytes that are no WKB or text that is no GeoJSON)
ParcelCatalogue ==
    { [block |-> "18702", lot |-> "27", qual |-> NULL,
       enc |-> "wkb", geom |-> Shape({1}, "ft")],
      [block |-> "18702", lot |-> "28", qual |-> NULL,
       enc |-> "wkb", geom |-> Shape({2, 3}, "ft")],
      [block |-> "18702", lot |-> "29", qual |-> "X",
       enc |-> "geojson", geom |-> Shape({4, 8}, "deg")],
      [block |-> "100", lot |-> "5", qual |-> "C0001",
       enc |-> "obj", geom |-> Shape({6}, "deg")],
      [block |-> "100", lot |-> "5", qual |-> "C0002",
       enc |-> "obj", geom |-> Shape({7}, "deg")],
      [block |-> "100", lot |-> "6", qual |-> NULL,
       enc |-> "wkb", geom |-> Shape({5}, "ft")],
      [block |-> "200", lot |-> "1", qual |-> NULL,
       enc |-> "geojson", geom |-> Shape({9}, "deg")],
      [block |-> "200", lot |-> "2", qual |-> NULL,
       enc |-> "wkb", geom |-> Shape({}, "ft")],
      [block |-> "200", lot |-> "3 ", qual |-> NULL,
       enc |-> "none", geom |-> {}],
      [block |-> "100", lot |-> "5", qual |-> "C0003",
       enc |-> "unknown", geom |-> {}],
      [block |-> "200", lot |-> "1", qual |-> "C0001",
       enc |-> "corrupt", geom |-> {}] }

\* census-block registry (WGS84): non-overlapping blocks, each assigned a ward
GEOIDS == {"G1", "G2", "G3", "G4"}
BlockCells == [g \in GEOIDS |->
    CASE g = "G1" -> {1, 2, 12} [] g = "G2" -> {3, 4, 5, 13} [] g = "G3" -> {6, 10}
      [] g = "G4" -> {7, 11}]
BlockWard == [g \in GEOIDS |->
    CASE g = "G1" -> "A" [] g = "G2" -> "A" [] g = "G3" -> "B" [] g = "G4" -> "B"]

\* POP100 of the registry: the censuses a run may read
Populations ==
    { [g \in GEOIDS |->
          CASE g = "G1" -> 0 [] g = "G2" -> 120 [] g = "G3" -> 45 [] g = "G4" -> 30],
      [g \in GEOIDS |->
          CASE g = "G1" -> 80 [] g = "G2" -> 0 [] g = "G3" -> 0 [] g = "G4" -> 0] }

\* ward registry (WGS84): ward C holds no census block
WardRegistry ==
    { [ward |-> "A", council_person |-> "CP-A", geometry |-> Shape({1, 2, 3, 4, 5, 12, 13}, "deg")],
      [ward |-> "B", council_person |-> "CP-B", geometry |-> Shape({6, 7, 10, 11}, "deg")],
      [ward |-> "C", council_person |-> "CP-C", geometry |-> Shape({8}, "deg")] }

\* the subsets of S with at most n elements
UpTo(S, n) == {T \in SUBSET S : Cardinality(T) <= n}

-----------------------------------------------------------------------------
(* Join keys and payment aggregation.                                      *)

\* str.strip() on the strings of the catalogues
Strip(s) ==
    CASE s = "27 " -> "27"
      [] s = "3 "  -> "3"
      [] OTHER     -> s

\* fillna("")
FillNa(q) == IF q = NULL THEN "" ELSE q

\* parcels["join_key"] for the aggregation level a
ParcelKey(a, row) ==
    CASE a = "unit"  -> Strip(row.block) \o "-" \o Strip(row.lot) \o "-"
                            \o Strip(FillNa(row.qual))
      [] a = "block" -> Strip(row.block)
      [] OTHER       -> Strip(row.block) \o "-" \o Strip(row.lot)

\* faulty variant of PaymentKey: the qualifier kept in the lot-level key
PaymentKeyWithQualifier(a, row) ==
    CASE a = "block" -> Strip(row.Block)
      [] OTHER       -> Strip(row.Block) \o "-" \o Strip(row.Lot) \o "-"
                            \o Strip(FillNa(row.Qualifier))

\* faulty variant of PaymentKey: the lot-level key at block level too
PaymentKeyLotForBlock(a, row) ==
    CASE a = "unit"  -> Strip(row.Block) \o "-" \o Strip(row.Lot) \o "-"
                            \o Strip(FillNa(row.Qualifier))
      [] OTHER       -> Strip(row.Block) \o "-" \o Strip(row.Lot)

\* payments["join_key"] for the aggregation level a
PaymentKey(a, row) ==
    CASE a = "unit"  -> Strip(row.Block) \o "-" \o Strip(row.Lot) \o "-"
                            \o Strip(FillNa(row.Qualifier))
      [] a = "block" -> Strip(row.Block)
      [] OTHER       -> Strip(row.Block) \o "-" \o Strip(row.Lot)

\* parcels["addr_key"]
AddrKey(a, row) ==
    IF a = "unit" THEN Strip(row.block) \o "-" \o Strip(row.lot)
    ELSE ParcelKey(a, row)

\* payments.groupby("join_key").agg({"Billed": "sum", "Paid": "sum"}) as a dict
PayAgg(a, rows) ==
    [k \in {PaymentKey(a, r) : r \in rows} |->
        LET grp == {r \in rows : PaymentKey(a, r) = k}
        IN  [Paid   |-> RSum([r \in grp |-> RInt(r.Paid)], grp),
             Billed |-> RSum([r \in grp |-> RInt(r.Billed)], grp)]]

Range(seq) == {seq[i] : i \in DOMAIN seq}

\* faulty variant of RedistributeGroup: the total split among the siblings other
\* than the source
RedistributeGroupAmongOthers(pd, group) ==
    IF group.source \notin DOMAIN pd THEN pd
    ELSE LET paid   == pd[group.source].Paid
             billed == pd[group.source].Billed
             n      == Len(group.lots) - 1
             keys   == Range(group.lots)
         IN  [k \in DOMAIN pd \cup keys |->
                 IF k \in keys
                 THEN [Paid |-> RDiv(paid, RInt(n)), Billed |-> RDiv(billed, RInt(n))]
                 ELSE pd[k]]

\* faulty variant of RedistributeGroup: a sibling that has a payment record keeps it
RedistributeGroupKeepExisting(pd, group) ==
    IF group.source \notin DOMAIN pd THEN pd
    ELSE LET paid   == pd[group.source].Paid
             billed == pd[group.source].Billed
             n      == Len(group.lots)
             keys   == Range(group.lots)
         IN  [k \in DOMAIN pd \cup keys |->
                 IF k \in keys /\ (k = group.source \/ k \notin DOMAIN pd)
                 THEN [Paid |-> RDiv(paid, RInt(n)), Billed |-> RDiv(billed, RInt(n))]
                 ELSE pd[k]]

\* faulty variant of RedistributeGroup: a source without a payment record
\* counts as a payment of zero, which is split like any other
RedistributeGroupMissingAsZero(pd, group) ==
    LET paid   == IF group.source \in DOMAIN pd THEN pd[group.source].Paid ELSE RZero
        billed == IF group.source \in DOMAIN pd THEN pd[group.source].Billed ELSE RZero
        n      == Len(group.lots)
        keys   == Range(group.lots)
    IN  [k \in DOMAIN pd \cup keys |->
            IF k \in keys
            THEN [Paid |-> RDiv(paid, RInt(n)), Billed |-> RDiv(billed, RInt(n))]
            ELSE pd[k]]

\* body of the loop over OMNIBUS_LOT_GROUPS for one group
RedistributeGroup(pd, group) ==
    IF group.source \notin DOMAIN pd THEN pd
    ELSE LET paid   == pd[group.source].Paid
             billed == pd[group.source].Billed
             n      == Len(group.lots)
             keys   == Range(group.lots)
         IN  [k \in DOMAIN pd \cup keys |->
                 IF k \in keys
                 THEN [Paid |-> RDiv(paid, RInt(n)), Billed |-> RDiv(billed, RInt(n))]
                 ELSE pd[k]]

RECURSIVE RedistributeFromTwice(_, _)
\* faulty variant of RedistributeFrom: every group redistributed a second time, from
\* the values the first pass left
RedistributeFromTwice(pd, i) ==
    IF i > Len(OMNIBUS_LOT_GROUPS) THEN pd
    ELSE RedistributeFromTwice(
             RedistributeGroup(RedistributeGroup(pd, OMNIBUS_LOT_GROUPS[i]),
                               OMNIBUS_LOT_GROUPS[i]), i + 1)

RECURSIVE RedistributeFrom(_, _)
\* the loop over OMNIBUS_LOT_GROUPS from group i on
RedistributeFrom(pd, i) ==
    IF i > Len(OMNIBUS_LOT_GROUPS) THEN pd
    ELSE RedistributeFrom(RedistributeGroup(pd, OMNIBUS_LOT_GROUPS[i]), i + 1)

\* sources of the groups the loop redistributes, in order
RedistributedSources(pd) ==
    SelectSeq([i \in DOMAIN OMNIBUS_LOT_GROUPS |-> OMNIBUS_LOT_GROUPS[i].source],
              LAMBDA src : src \in DOMAIN pd)

\* "if aggregate == 'lot':" guarding the loop in generate_yearly_geojson
OmnibusApplies(a) == a = "lot"

\* float(pay_data.get(col, 0) or 0) with pay_data = pay_dict.get(key, {})
PayGet(pd, key, col) == IF key \in DOMAIN pd THEN pd[key][col] ELSE RZero

-----------------------------------------------------------------------------
(* Geometry of a parcel row.                                               *)

\* the exception shapely.wkb.loads / json.loads / shapely.geometry.shape
\* raise on a value they cannot parse
Raised == {<<0, "raise">>}

\* get_geometry(row): the parsed geometry, None when the row holds none or
\* holds a value of no known encoding; the parsers' exception is not caught
get_geometry(row) ==
    CASE row.enc \in {"none", "unknown"} -> NoGeometry
      [] row.enc = "corrupt"             -> Raised
      [] OTHER                           -> row.geom

\* is_njsp(geom): bounds[0] > 1000 (the bounds of an empty geometry are nan)
is_njsp(geom) == geom # {} /\ \A p \in geom : XOf(p) > 1000

\* process_geometry(geom): the WGS84 geometry for GeoJSON and the area in sqft
process_geometry(geom) ==
    IF is_njsp(geom)
    THEN [geojson |-> ToWgs84(geom), area_sqft |-> Area(geom)]
    ELSE [geojson |-> geom, area_sqft |-> Area(ToNjsp(geom))]

\* faulty variant of PaidPerSqft: the division without its guard
PaidPerSqftUnguarded(paid, area_sqft) == RDiv(paid, area_sqft)

\* paid / area_sqft if area_sqft > 0 else 0
PaidPerSqft(paid, area_sqft) ==
    IF RPos(area_sqft) THEN RDiv(paid, area_sqft) ELSE RZero

\* faulty variant of PaidPerCapita: zero where there is nobody
PaidPerCapitaZero(paid, population) ==
    IF population > 0 THEN RDiv(paid, RInt(population)) ELSE RZero

\* paid / population if population > 0 else None
PaidPerCapita(paid, population) ==
    IF population > 0 THEN RDiv(paid, RInt(population)) ELSE None

\* round(v, 2) if pd.notna(v) else None
RoundOrNone(v) == IF v = None THEN None ELSE Round2(v)

-----------------------------------------------------------------------------
(* generate_yearly_geojson: start of the run.                              *)

\* the keys of lot_geoms: the lots of which some row holds a geometry
LotGeomKeys ==
    {ParcelKey("lot", r) : r \in {x \in parcels : get_geometry(x) # NoGeometry}}

\* the messages err() writes during the step the run is at, in order
Messages ==
    CASE pc = "start" ->
            IF payments_exists
            THEN <<"Loading parcels from", "Loading payments for year",
                   "payment records for",
                   "Loading addresses and owners from cache...",
                   "addresses, lot owners, unit owners loaded">>
            ELSE <<"Payments file not found: payments.parquet",
                   "Run: python -m jc_taxes.payments">>
      [] pc = "omnibus" ->
            IF OmnibusApplies(aggregate)
            THEN [i \in DOMAIN RedistributedSources(pay_dict) |-> "Redistributed"]
            ELSE <<>>
      [] pc = "features" ->
            IF aggregate = "unit" THEN <<"Generating unit-level features...">>
            ELSE IF \E r \in parcels : get_geometry(r) = Raised
                 THEN <<"Aggregating geometries by">>
                 ELSE <<"Aggregating geometries by", "Dissolving">>
      [] pc = "write" -> <<"Generated features", "Wrote">>
      [] pc = "lot_rows" ->
            IF (\E r \in parcels : get_geometry(r) = Raised) \/ LotGeomKeys = {}
            THEN <<>>
            ELSE <<"Built lot geometries in WGS84">>
      [] pc = "overlay" ->
            <<"Filtered Hudson County blocks",
              "Computing lot x census-block overlay...",
              "intersection fragments from">>
      [] pc = "cb_agg" ->
            <<"Building trimmed geometries from tax-paying lots...",
              "Building ward lot-fragment geometries...",
              "Building ward block-level geometries...",
              "Building ward merged boundaries from buffered lot geometries...">>
      [] pc = "cb_features" -> <<"Generated census-block features">>
      [] pc = "wards" -> <<"Generated ward features">>
      [] pc = "write_geojson" -> <<"Wrote">>
      [] OTHER -> <<>>

NoFiles == [n \in {} |-> {}]

\* the dict {} and the dict of a FeatureCollection
EmptyDict == [n \in {} |-> {}]
FeatureCollection(fs) == [type |-> "FeatureCollection", features |-> fs]

\* faulty variant of OutputName: the suffix taken for the direct levels only,
\* the default "-lots" for the others
OutputNameDefaultSuffix(y, a) ==
    "taxes-" \o ToString(y)
        \o (IF a \in {"unit", "block"} THEN SUFFIX_MAP[a] ELSE "-lots") \o ".geojson"

\* output / f"taxes-{year}{suffix}.geojson"
OutputName(y, a) == "taxes-" \o ToString(y) \o SUFFIX_MAP[a] \o ".geojson"

\* json.dump of the FeatureCollection into the output file
WriteFile(fs, name, content) ==
    [n \in DOMAIN fs \cup {name} |-> IF n = name THEN content ELSE fs[n]]

Init ==
    /\ pc = "start"
    /\ aggregate \in AGGREGATE_CHOICES
    /\ year \in RunYears
    /\ payments_exists \in BOOLEAN
    /\ ledger = {}
    /\ parcels = {}
    /\ payments = {}
    /\ pay_agg = NoFiles
    /\ pay_dict = NoFiles
    /\ redistributions = <<>>
    /\ lot_gdf = {}
    /\ cb_gdf = {}
    /\ overlay = {}
    /\ cb_result = {}
    /\ ward_result = {}
    /\ features = {}
    /\ files = NoFiles
    /\ result = [returned |-> FALSE, value |-> EmptyDict]
    /\ stderr = <<>>
    /\ hole_runs = <<>>
    /\ name_runs = <<>>
    /\ enum = <<>>
    /\ client = <<>>
    /\ search = <<>>
    /\ before = <<>>
    /\ extract = <<>>

\* faulty variant of AbortNoPayments: the run goes on to write an empty
\* FeatureCollection and returns it
AbortWritingEmptyCollection ==
    /\ pc = "start"
    /\ ~payments_exists
    /\ pc' = "done"
    /\ files' = WriteFile(files, OutputName(year, aggregate), FeatureCollection({}))
    /\ result' = [returned |-> TRUE, value |-> FeatureCollection({})]
    /\ stderr' = stderr \o Messages
    /\ UNCHANGED other_vars
    /\ UNCHANGED <<aggregate, year, payments_exists, ledger, parcels, payments,
                   pay_agg, pay_dict, redistributions, lot_gdf, cb_gdf, overlay,
                   cb_result, ward_result, features>>

\* payments.parquet is missing: report and return {}
AbortNoPayments ==
    /\ pc = "start"
    /\ ~payments_exists
    /\ pc' = "done"
    /\ result' = [returned |-> TRUE, value |-> EmptyDict]
    /\ stderr' = stderr \o Messages
    /\ UNCHANGED other_vars
    /\ UNCHANGED <<aggregate, year, payments_exists, ledger, parcels, payments,
                   pay_agg, pay_dict, redistributions, lot_gdf, cb_gdf, overlay,
                   cb_result, ward_result, features, files>>

\* read the parcels, read the payments and keep the rows of the year
LoadData ==
    /\ pc = "start"
    /\ payments_exists
    /\ \E ps \in UpTo(ParcelCatalogue, MaxParcels), led \in UpTo(LedgerCatalogue, MaxRows) :
          /\ parcels' = ps
          /\ ledger' = led
          /\ payments' = {r \in led : r.Year = year}
    /\ pc' = IF aggregate \in {"census-block", "ward"} THEN "lot_keys" ELSE "keys"
    /\ stderr' = stderr \o Messages
    /\ UNCHANGED other_vars
    /\ UNCHANGED <<aggregate, year, payments_exists, pay_agg, pay_dict,
                   redistributions, lot_gdf, cb_gdf, overlay, cb_result,
                   ward_result, features, files, result>>

-----------------------------------------------------------------------------
(* generate_yearly_geojson: unit, lot and block levels.                    *)

\* join keys and the per-key sums of the ledger
AggregatePayments ==
    /\ pc = "keys"
    /\ pay_agg' = PayAgg(aggregate, payments)
    /\ pay_dict' = PayAgg(aggregate, payments)
    /\ pc' = "omnibus"
    /\ UNCHANGED stderr
    /\ UNCHANGED other_vars
    /\ UNCHANGED <<aggregate, year, payments_exists, ledger, parcels, payments,
                   redistributions, lot_gdf, cb_gdf, overlay, cb_result,
                   ward_result, features, files, result>>

\* redistribute omnibus payments across their lot groups (lot level only)
Redistribute ==
    /\ pc = "omnibus"
    /\ IF OmnibusApplies(aggregate)
       THEN /\ pay_dict' = RedistributeFrom(pay_dict, 1)
            /\ redistributions' = redistributions \o RedistributedSources(pay_dict)
            /\ stderr' = stderr \o Messages
       ELSE UNCHANGED <<pay_dict, redistributions, stderr>>
    /\ pc' = "features"
    /\ UNCHANGED other_vars
    /\ UNCHANGED <<aggregate, year, payments_exists, ledger, parcels, payments,
                   pay_agg, lot_gdf, cb_gdf, overlay, cb_result, ward_result,
                   features, files, result>>

\* the feature of one parcel row (unit level)
UnitFeature(row) ==
    LET pg   == process_geometry(get_geometry(row))
        key  == ParcelKey("unit", row)
        paid == PayGet(pay_dict, key, "Paid")
        billed == PayGet(pay_dict, key, "Billed")
        pps  == PaidPerSqft(paid, pg.area_sqft)
    IN  [geometry   |-> pg.geojson,
         key        |-> key,
         row        |-> [paid |-> paid, billed |-> billed,
                         area_sqft |-> pg.area_sqft, paid_per_sqft |-> pps],
         properties |-> [block |-> Strip(row.block), lot |-> Strip(row.lot),
                         qual |-> row.qual, year |-> year,
                         paid |-> Round2(paid), billed |-> Round2(billed),
                         area_sqft |-> Round1(pg.area_sqft),
                         paid_per_sqft |-> Round2(pps)]]

\* the feature of one join key (lot and block levels): its rows dissolved
DissolvedFeature(key) ==
    LET rows == {r \in parcels : get_geometry(r) # NoGeometry
                                   /\ ParcelKey(aggregate, r) = key}
        geoms == {get_geometry(r) : r \in rows}
        dissolved == IF Cardinality(geoms) = 1 THEN CHOOSE g \in geoms : TRUE
                     ELSE unary_union(geoms)
        pg   == process_geometry(dissolved)
        first == CHOOSE r \in rows : TRUE
        paid == PayGet(pay_dict, key, "Paid")
        billed == PayGet(pay_dict, key, "Billed")
        pps  == PaidPerSqft(paid, pg.area_sqft)
    IN  [geometry   |-> pg.geojson,
         key        |-> key,
         row        |-> [paid |-> paid, billed |-> billed,
                         area_sqft |-> pg.area_sqft, paid_per_sqft |-> pps],
         properties |-> [block |-> Strip(first.block),
                         lot |-> IF aggregate # "block" THEN Strip(first.lot) ELSE NULL,
                         year |-> year,
                         paid |-> Round2(paid), billed |-> Round2(billed),
                         area_sqft |-> Round1(pg.area_sqft),
                         paid_per_sqft |-> Round2(pps)]]

\* faulty variant of FeatureRows: an inner join, a row whose key has no
\* payment record yields nothing
FeatureRowsWithPayment ==
    {x \in parcels : get_geometry(x) # NoGeometry
                        /\ ParcelKey(aggregate, x) \in DOMAIN pay_dict}

\* the parcel rows the loops do not pass over ("if geom is None: continue")
FeatureRows == {x \in parcels : get_geometry(x) # NoGeometry}

\* one feature per parcel row, or per join key with a geometry; get_geometry
\* is called outside the try blocks, so its exception leaves the function
BuildFeatures ==
    /\ pc = "features"
    /\ IF \E r \in parcels : get_geometry(r) = Raised
       THEN /\ pc' = "raised"
            /\ stderr' = stderr \o Messages
            /\ UNCHANGED features
       ELSE /\ features' =
                  IF aggregate = "unit"
                  THEN {UnitFeature(r) : r \in FeatureRows}
                  ELSE {DissolvedFeature(k) :
                           k \in {ParcelKey(aggregate, r) : r \in FeatureRows}}
            /\ stderr' = stderr \o Messages
            /\ pc' = "write"
    /\ UNCHANGED other_vars
    /\ UNCHANGED <<aggregate, year, payments_exists, ledger, parcels, payments,
                   pay_agg, pay_dict, redistributions, lot_gdf, cb_gdf, overlay,
                   cb_result, ward_result, files, result>>

\* write the FeatureCollection and return it
WriteOutput ==
    /\ pc = "write"
    /\ files' = WriteFile(files, OutputName(year, aggregate), FeatureCollection(features))
    /\ result' = [returned |-> TRUE, value |-> FeatureCollection(features)]
    /\ pc' = "done"
    /\ stderr' = stderr \o Messages
    /\ UNCHANGED other_vars
    /\ UNCHANGED <<aggregate, year, payments_exists, ledger, parcels, payments,
                   pay_agg, pay_dict, redistributions, lot_gdf, cb_gdf, overlay,
                   cb_result, ward_result, features>>

-----------------------------------------------------------------------------
(* _build_lot_gdf: lot rows in WGS84 with aggregated payments.             *)

\* lot-level join keys and the per-key sums of the ledger
LotPayments ==
    /\ pc = "lot_keys"
    /\ pay_agg' = PayAgg("lot", payments)
    /\ pay_dict' = PayAgg("lot", payments)
    /\ pc' = "lot_omnibus"
    /\ UNCHANGED stderr
    /\ UNCHANGED other_vars
    /\ UNCHANGED <<aggregate, year, payments_exists, ledger, parcels, payments,
                   redistributions, lot_gdf, cb_gdf, overlay, cb_result,
                   ward_result, features, files, result>>

\* redistribute omnibus payments across their lot groups
LotRedistribute ==
    /\ pc = "lot_omnibus"
    /\ pay_dict' = RedistributeFrom(pay_dict, 1)
    /\ redistributions' = redistributions \o RedistributedSources(pay_dict)
    /\ pc' = "lot_rows"
    /\ UNCHANGED stderr
    /\ UNCHANGED other_vars
    /\ UNCHANGED <<aggregate, year, payments_exists, ledger, parcels, payments,
                   pay_agg, lot_gdf, cb_gdf, overlay, cb_result, ward_result,
                   features, files, result>>

\* faulty variant of LotRow: the lot keeps the geometry of one fragment
LotRowOneFragment(key) ==
    LET geoms == {get_geometry(r) :
                     r \in {x \in parcels : get_geometry(x) # NoGeometry
                                              /\ ParcelKey("lot", x) = key}}
        dissolved == CHOOSE g \in geoms : TRUE
    IN  [join_key |-> key,
         paid     |-> PayGet(pay_dict, key, "Paid"),
         billed   |-> PayGet(pay_dict, key, "Billed"),
         geometry |-> IF is_njsp(dissolved) THEN ToWgs84(dissolved) ELSE dissolved]

\* the row of one lot key: its geometries dissolved and converted to WGS84
LotRow(key) ==
    LET geoms == {get_geometry(r) :
                     r \in {x \in parcels : get_geometry(x) # NoGeometry
                                              /\ ParcelKey("lot", x) = key}}
        dissolved == IF Cardinality(geoms) = 1 THEN CHOOSE g \in geoms : TRUE
                     ELSE unary_union(geoms)
    IN  [join_key |-> key,
         paid     |-> PayGet(pay_dict, key, "Paid"),
         billed   |-> PayGet(pay_dict, key, "Billed"),
         geometry |-> IF is_njsp(dissolved) THEN ToWgs84(dissolved) ELSE dissolved]

\* collect the geometries per lot, dissolve, build the GeoDataFrame; the
\* parsing loop is outside the try block, so its exception leaves the
\* function, and so does the ValueError of gpd.GeoDataFrame([], crs=...):
\* without rows there is no geometry column to give the CRS to
LotRows ==
    /\ pc = "lot_rows"
    /\ IF \/ \E r \in parcels : get_geometry(r) = Raised
          \/ LotGeomKeys = {}
       THEN /\ pc' = "raised"
            /\ UNCHANGED <<lot_gdf, stderr>>
       ELSE /\ lot_gdf' = {LotRow(k) : k \in LotGeomKeys}
            /\ stderr' = stderr \o Messages
            /\ pc' = "overlay"
    /\ UNCHANGED other_vars
    /\ UNCHANGED <<aggregate, year, payments_exists, ledger, parcels, payments,
                   pay_agg, pay_dict, redistributions, cb_gdf, overlay, cb_result,
                   ward_result, features, files, result>>

-----------------------------------------------------------------------------
(* _remove_small_holes on polygons with interior rings.  A ring is held by *)
(* the area it encloses (Polygon(r).area, in square feet); a polygon is    *)
(* its exterior ring and the sequence of its interior rings.               *)

MaxHoles == 2
MaxPolygons == 2
MaxCalls == 2

MIN_HOLE_SQFT == 200000

\* the areas a ring may enclose
ExteriorAreas == {9000000}
HoleAreas == {199999, 200000, 750000}

\* the sequences over S of length at most n
SeqUpTo(S, n) == UNION {[1..k -> S] : k \in 0..n}

NoneGeom == [geom_type |-> "None"]
EmptyPolygon == [geom_type |-> "Polygon", exterior |-> 0, interiors |-> <<>>]
Polygon(exterior, interiors) ==
    [geom_type |-> "Polygon", exterior |-> exterior, interiors |-> interiors]
MultiPolygon(polygons) == [geom_type |-> "MultiPolygon", geoms |-> polygons]
LineString(length) == [geom_type |-> "LineString", length |-> length]

Polygons ==
    {EmptyPolygon} \cup
    {Polygon(e, hs) : e \in ExteriorAreas, hs \in SeqUpTo(HoleAreas, MaxHoles)}

\* what _remove_small_holes may be handed
HoleInputs ==
    {NoneGeom, LineString(0), LineString(120)} \cup Polygons
        \cup {MultiPolygon(ps) : ps \in SeqUpTo(Polygons, MaxPolygons)}

\* geom.is_empty
is_empty(geom) ==
    CASE geom.geom_type = "Polygon"      -> geom.exterior = 0
      [] geom.geom_type = "MultiPolygon" ->
            \A i \in DOMAIN geom.geoms : geom.geoms[i].exterior = 0
      [] geom.geom_type = "LineString"   -> geom.length = 0
      [] OTHER                           -> FALSE

\* faulty variant of KeptInteriors: the holes kept come back in reverse order
KeptInteriorsReversed(interiors) ==
    LET kept == SelectSeq(interiors, LAMBDA r : r >= MIN_HOLE_SQFT)
    IN  [i \in 1..Len(kept) |-> kept[Len(kept) + 1 - i]]

\* faulty variant of KeptInteriors: a hole of exactly the threshold is removed
KeptInteriorsAbove(interiors) ==
    SelectSeq(interiors, LAMBDA r : r > MIN_HOLE_SQFT)

\* kept = [r for r in geom.interiors if Polygon(r).area >= _MIN_HOLE_SQFT]
KeptInteriors(interiors) ==
    SelectSeq(interiors, LAMBDA r : r >= MIN_HOLE_SQFT)

RECURSIVE remove_small_holes(_)
\* _remove_small_holes(geom)
remove_small_holes(geom) ==
    IF geom = NoneGeom \/ is_empty(geom) THEN geom
    ELSE IF geom.geom_type = "Polygon"
         THEN Polygon(geom.exterior, KeptInteriors(geom.interiors))
    ELSE IF geom.geom_type = "MultiPolygon"
         THEN MultiPolygon([i \in DOMAIN geom.geoms |->
                               remove_small_holes(geom.geoms[i])])
    ELSE geom

-----------------------------------------------------------------------------
(* _generate_census_geojson: area-weighted allocation to census blocks.    *)

\* load_jc_census_blocks(): the registry with the populations pop
CensusBlocks(pop) ==
    {[GEOID |-> g, POP100 |-> pop[g], ward |-> BlockWard[g],
      geometry |-> Shape(BlockCells[g], "deg")] : g \in GEOIDS}

\* faulty variant of Weight: the ratio taken the wrong way round
WeightInverted(intersection_area, lot_area) == RDiv(lot_area, intersection_area)

\* weight of an overlay fragment
Weight(intersection_area, lot_area) == RDiv(intersection_area, lot_area)

\* faulty variant of Fragment: the weight taken over the part of the lot that the
\* census blocks cover, so that no payment is dropped
FragmentRenormalised(l, c) ==
    LET lot_geom == ToNjsp(l.geometry)
        lot_area == Area(lot_geom)
        inter    == Intersection(lot_geom, ToNjsp(c.geometry))
        ia       == Area(inter)
        covered  == Area(lot_geom \cap UNION {Shape(BlockCells[g], "ft") : g \in GEOIDS})
        weight   == Weight(ia, covered)
    IN  [join_key |-> l.join_key, paid |-> l.paid, billed |-> l.billed,
         lot_area |-> lot_area, GEOID |-> c.GEOID, POP100 |-> c.POP100,
         ward |-> c.ward, geometry |-> inter, intersection_area |-> ia,
         weight |-> weight, w_paid |-> RMul(l.paid, weight),
         w_billed |-> RMul(l.billed, weight)]

\* the overlay fragment of lot row l and census block c (both projected)
Fragment(l, c) ==
    LET lot_geom == ToNjsp(l.geometry)
        lot_area == Area(lot_geom)
        inter    == Intersection(lot_geom, ToNjsp(c.geometry))
        ia       == Area(inter)
        weight   == Weight(ia, lot_area)
    IN  [join_key |-> l.join_key, paid |-> l.paid, billed |-> l.billed,
         lot_area |-> lot_area, GEOID |-> c.GEOID, POP100 |-> c.POP100,
         ward |-> c.ward, geometry |-> inter, intersection_area |-> ia,
         weight |-> weight, w_paid |-> RMul(l.paid, weight),
         w_billed |-> RMul(l.billed, weight)]

\* gpd.overlay(lot_proj, cb_proj, how="intersection"): the pairs that
\* intersect in a polygon
Overlaps(l, c) ==
    RPos(Area(Intersection(ToNjsp(l.geometry), ToNjsp(c.geometry))))

\* load the registry, project, intersect and weigh
Overlay ==
    /\ pc = "overlay"
    /\ \E pop \in Populations :
          /\ cb_gdf' = CensusBlocks(pop)
          /\ overlay' = {Fragment(l, c) :
                            <<l, c>> \in {x \in lot_gdf \X CensusBlocks(pop) :
                                             Overlaps(x[1], x[2])}}
    /\ pc' = "cb_agg"
    /\ stderr' = stderr \o Messages
    /\ UNCHANGED other_vars
    /\ UNCHANGED <<aggregate, year, payments_exists, ledger, parcels, payments,
                   pay_agg, pay_dict, redistributions, lot_gdf, cb_result,
                   ward_result, features, files, result>>

\* faulty variant of PayingOverlay: no filter
PayingOverlayAll(ov) == ov

\* overlay[overlay["paid"] > 0]
PayingOverlay(ov) == {f \in ov : RPos(f.paid)}

\* the cb_result row of census block c
CensusRow(c) ==
    LET frags  == {f \in overlay : f.GEOID = c.GEOID}
        paying == {f \in PayingOverlay(overlay) : f.GEOID = c.GEOID}
        paid   == RSum([f \in frags |-> f.w_paid], frags)
        billed == RSum([f \in frags |-> f.w_billed], frags)
        area   == RSum([f \in paying |-> f.intersection_area], paying)
    IN  [GEOID |-> c.GEOID, POP100 |-> c.POP100, ward |-> c.ward,
         geometry |-> c.geometry, paid |-> paid, billed |-> billed,
         area_sqft |-> area,
         paid_per_sqft |-> PaidPerSqft(paid, area),
         paid_per_capita |-> PaidPerCapita(paid, c.POP100)]

\* faulty variant of CensusAggregate: an inner join, keeping the blocks that got a
\* fragment
CensusAggregateInner ==
    /\ pc = "cb_agg"
    /\ cb_result' = {CensusRow(c) :
                        c \in {x \in cb_gdf : \E f \in overlay : f.GEOID = x.GEOID}}
    /\ pc' = IF aggregate = "ward" THEN "wards" ELSE "cb_features"
    /\ stderr' = stderr \o Messages
    /\ UNCHANGED other_vars
    /\ UNCHANGED <<aggregate, year, payments_exists, ledger, parcels, payments,
                   pay_agg, pay_dict, redistributions, lot_gdf, cb_gdf, overlay,
                   ward_result, features, files, result>>

\* sum per GEOID, left-join onto the registry, derive the ratios
CensusAggregate ==
    /\ pc = "cb_agg"
    /\ cb_result' = {CensusRow(c) : c \in cb_gdf}
    /\ pc' = IF aggregate = "ward" THEN "wards" ELSE "cb_features"
    /\ stderr' = stderr \o Messages
    /\ UNCHANGED other_vars
    /\ UNCHANGED <<aggregate, year, payments_exists, ledger, parcels, payments,
                   pay_agg, pay_dict, redistributions, lot_gdf, cb_gdf, overlay,
                   ward_result, features, files, result>>

\* GeoDataFrame.dissolve: the union of the fragments' geometries
Dissolve(frags) == unary_union({f.geometry : f \in frags})

\* simplify(tolerance): it moves vertices by a few feet; the cells a shape
\* covers stay
Simplify(geom) == geom

\* geometry.buffer(50): the shape grown by 50 ft, which takes in the near
\* half of every street along a cell it covers
Buffer50(geom) ==
    geom \cup {<<x[1].halves[x[2]], "ft">> :
                 x \in {y \in Streets \X {1, 2} : <<y[1].sides[y[2]], "ft">> \in geom}}

\* buffer(-50): the shape shrunk by 50 ft, which gives back the street halves
\* on its outside and keeps those whose other half it covers too: there the
\* street lies inside the shape
Unbuffer50(geom) ==
    geom \ {<<x[1].halves[x[2]], "ft">> :
                x \in {y \in Streets \X {1, 2} :
                          <<y[1].halves[3 - y[2]], "ft">> \notin geom}}

RECURSIVE SortedCells(_)
\* the cells cs in increasing order
SortedCells(cs) ==
    IF cs = {} THEN <<>>
    ELSE LET c == CHOOSE x \in cs : \A y \in cs : x <= y
         IN  <<c>> \o SortedCells(cs \ {c})

\* the enclosures a shape has as holes
HolesOf(geom) ==
    LET covered == {p[1] : p \in geom}
    IN  {h.cell : h \in {e \in Enclosures : e.ring \subseteq covered
                                              /\ e.cell \notin covered}}

\* ward_merged_proj.apply(_remove_small_holes): the shape as the polygon of
\* its outer ring and its holes, and the holes _remove_small_holes drops
\* covered
RemoveSmallHoles(geom) ==
    LET holes   == SortedCells(HolesOf(geom))
        polygon == Polygon(CellsArea({p[1] : p \in geom} \cup HolesOf(geom)),
                           [i \in DOMAIN holes |-> CellArea[holes[i]]])
        kept    == remove_small_holes(polygon).interiors
    IN  geom \cup Shape({c \in HolesOf(geom) :
                            \A i \in DOMAIN kept : kept[i] # CellArea[c]}, "ft")

\* join_key.str.split("-").str[0]
BlockNum(join_key) ==
    CHOOSE b \in {Strip(r.block) : r \in ParcelCatalogue} :
        \E r \in ParcelCatalogue : join_key = b \o "-" \o Strip(r.lot)

\* GEOID -> ward, from cb_result
WardOf(geoid) == (CHOOSE r \in cb_result : r.GEOID = geoid).ward

\* cb_trimmed: the paying fragments dissolved per census block (WGS84)
cb_trimmed(geoid) ==
    LET frags == {f \in PayingOverlay(overlay) : f.GEOID = geoid}
    IN  IF frags = {} THEN NoGeometry ELSE ToWgs84(Simplify(Dissolve(frags)))

\* paying_proj_ward: the paying fragments, with the ward of their census
\* block; here the rows of one ward
paying_proj_ward(ward) == {f \in PayingOverlay(overlay) : WardOf(f.GEOID) = ward}

\* faulty variant of all_overlay_ward: the paying fragments only
AllOverlayWardPaying(ward) == paying_proj_ward(ward)

\* all_overlay_ward: every fragment of the overlay, with the ward of its
\* census block; here the rows of one ward
all_overlay_ward(ward) == {f \in overlay : WardOf(f.GEOID) = ward}

\* ward_lots: the paying fragments dissolved per ward (WGS84)
ward_lots(ward) ==
    LET frags == paying_proj_ward(ward)
    IN  IF frags = {} THEN NoGeometry ELSE ToWgs84(Simplify(Dissolve(frags)))

\* ward_blocks: the paying fragments dissolved per (ward, block), collected
\* per ward into one multi-polygon (WGS84)
ward_blocks(ward) ==
    LET frags  == paying_proj_ward(ward)
        blocks == {BlockNum(f.join_key) : f \in frags}
        shapes == {Simplify(Dissolve({f \in frags : BlockNum(f.join_key) = b})) :
                      b \in blocks}
    IN  IF frags = {} THEN NoGeometry ELSE ToWgs84(unary_union(shapes))

\* ward_merged: all fragments of the ward, buffered, dissolved, eroded,
\* simplified, small holes removed (WGS84)
ward_merged(ward) ==
    LET frags == all_overlay_ward(ward)
    IN  IF frags = {} THEN NoGeometry
        ELSE LET buffered      == {[f EXCEPT !.geometry = Buffer50(f.geometry)] :
                                      f \in frags}
                 ward_buffered == Dissolve(buffered)
             IN  ToWgs84(RemoveSmallHoles(Simplify(Unbuffer50(ward_buffered))))

\* "x if x is not None and not x.is_empty else fallback"
GeomOr(x, fallback) == IF x # NoGeometry /\ x # {} THEN x ELSE fallback

\* the feature of one cb_result row
CensusFeature(r) ==
    [geometry   |-> GeomOr(cb_trimmed(r.GEOID), r.geometry),
     properties |-> [geoid |-> r.GEOID, ward |-> r.ward, year |-> year,
                     paid |-> Round2(r.paid), billed |-> Round2(r.billed),
                     area_sqft |-> Round1(r.area_sqft),
                     paid_per_sqft |-> Round2(r.paid_per_sqft),
                     population |-> r.POP100,
                     paid_per_capita |-> RoundOrNone(r.paid_per_capita)]]

\* census-block output
CensusFeatures ==
    /\ pc = "cb_features"
    /\ features' = {CensusFeature(r) : r \in cb_result}
    /\ pc' = "write_geojson"
    /\ stderr' = stderr \o Messages
    /\ UNCHANGED other_vars
    /\ UNCHANGED <<aggregate, year, payments_exists, ledger, parcels, payments,
                   pay_agg, pay_dict, redistributions, lot_gdf, cb_gdf, overlay,
                   cb_result, ward_result, files, result>>

-----------------------------------------------------------------------------
(* _aggregate_to_wards and _write_geojson.                                 *)

\* faulty variant of WardRow: only the census blocks that received a payment
\* are summed
WardRowPayingOnly(w) ==
    LET rows == {r \in cb_result : r.ward = w.ward /\ RPos(r.paid)}
        paid == RSum([r \in rows |-> r.paid], rows)
        billed == RSum([r \in rows |-> r.billed], rows)
        population == RSum([r \in rows |-> RInt(r.POP100)], rows)[1]
        area == RSum([r \in rows |-> r.area_sqft], rows)
    IN  [ward |-> w.ward, council_person |-> w.council_person,
         geometry |-> w.geometry, paid |-> paid, billed |-> billed,
         population |-> population, area_sqft |-> area,
         paid_per_sqft |-> PaidPerSqft(paid, area),
         paid_per_capita |-> PaidPerCapita(paid, population)]

\* the ward_result row of ward w
WardRow(w) ==
    LET rows == {r \in cb_result : r.ward = w.ward}
        paid == RSum([r \in rows |-> r.paid], rows)
        billed == RSum([r \in rows |-> r.billed], rows)
        population == RSum([r \in rows |-> RInt(r.POP100)], rows)[1]
        area == RSum([r \in rows |-> r.area_sqft], rows)
    IN  [ward |-> w.ward, council_person |-> w.council_person,
         geometry |-> w.geometry, paid |-> paid, billed |-> billed,
         population |-> population, area_sqft |-> area,
         paid_per_sqft |-> PaidPerSqft(paid, area),
         paid_per_capita |-> PaidPerCapita(paid, population)]

\* faulty variant of WardFeature: the registry boundary attached only when
\* it is not the feature's geometry already
WardFeatureBoundaryIfMerged(r) ==
    [geometry   |-> GeomOr(ward_merged(r.ward), r.geometry),
     properties |-> [ward |-> r.ward, council_person |-> r.council_person,
                     year |-> year,
                     paid |-> Round2(r.paid), billed |-> Round2(r.billed),
                     area_sqft |-> Round1(r.area_sqft),
                     paid_per_sqft |-> Round2(r.paid_per_sqft),
                     population |-> r.population,
                     paid_per_capita |-> RoundOrNone(r.paid_per_capita),
                     lots |-> GeomOr(ward_lots(r.ward), NoGeometry),
                     blocks |-> GeomOr(ward_blocks(r.ward), NoGeometry),
                     boundary |-> IF GeomOr(ward_merged(r.ward), NoGeometry) = NoGeometry
                                  THEN NoGeometry ELSE r.geometry]]

\* the feature of one ward_result row; a property lots or blocks that is
\* NoGeometry is a key the feature does not carry
WardFeature(r) ==
    [geometry   |-> GeomOr(ward_merged(r.ward), r.geometry),
     properties |-> [ward |-> r.ward, council_person |-> r.council_person,
                     year |-> year,
                     paid |-> Round2(r.paid), billed |-> Round2(r.billed),
                     area_sqft |-> Round1(r.area_sqft),
                     paid_per_sqft |-> Round2(r.paid_per_sqft),
                     population |-> r.population,
                     paid_per_capita |-> RoundOrNone(r.paid_per_capita),
                     lots |-> GeomOr(ward_lots(r.ward), NoGeometry),
                     blocks |-> GeomOr(ward_blocks(r.ward), NoGeometry),
                     boundary |-> r.geometry]]

\* sum per ward, left-join onto the ward registry, derive the ratios
AggregateToWards ==
    /\ pc = "wards"
    /\ ward_result' = {WardRow(w) : w \in WardRegistry}
    /\ features' = {WardFeature(WardRow(w)) : w \in WardRegistry}
    /\ pc' = "write_geojson"
    /\ stderr' = stderr \o Messages
    /\ UNCHANGED other_vars
    /\ UNCHANGED <<aggregate, year, payments_exists, ledger, parcels, payments,
                   pay_agg, pay_dict, redistributions, lot_gdf, cb_gdf, overlay,
                   cb_result, files, result>>

\* _write_geojson(features, year, aggregate, output_dir)
WriteGeojson ==
    /\ pc = "write_geojson"
    /\ files' = WriteFile(files, OutputName(year, aggregate), FeatureCollection(features))
    /\ result' = [returned |-> TRUE, value |-> FeatureCollection(features)]
    /\ pc' = "done"
    /\ stderr' = stderr \o Messages
    /\ UNCHANGED other_vars
    /\ UNCHANGED <<aggregate, year, payments_exists, ledger, parcels, payments,
                   pay_agg, pay_dict, redistributions, lot_gdf, cb_gdf, overlay,
                   cb_result, ward_result, features>>

-----------------------------------------------------------------------------

Next ==
    \/ AbortNoPayments
    \/ LoadData
    \/ AggregatePayments
    \/ Redistribute
    \/ BuildFeatures
    \/ WriteOutput
    \/ LotPayments
    \/ LotRedistribute
    \/ LotRows
    \/ Overlay
    \/ CensusAggregate
    \/ CensusFeatures
    \/ AggregateToWards
    \/ WriteGeojson

Spec == Init /\ [][Next]_vars

-----------------------------------------------------------------------------
(* States of the functions checked on their own.                           *)

\* no run of generate_yearly_geojson is under way
NoRun ==
    /\ pc = "idle"
    /\ aggregate = "ward"
    /\ year \in RunYears
    /\ payments_exists = FALSE
    /\ ledger = {}
    /\ parcels = {}
    /\ payments = {}
    /\ pay_agg = NoFiles
    /\ pay_dict = NoFiles
    /\ redistributions = <<>>
    /\ lot_gdf = {}
    /\ cb_gdf = {}
    /\ overlay = {}
    /\ cb_result = {}
    /\ ward_result = {}
    /\ features = {}
    /\ files = NoFiles
    /\ result = [returned |-> FALSE, value |-> EmptyDict]
    /\ stderr = <<>>

HolesInit ==
    /\ NoRun
    /\ \E geom \in HoleInputs : hole_runs = <<geom>>
    /\ name_runs = <<>>
    /\ enum = <<>>
    /\ client = <<>>
    /\ search = <<>>
    /\ before = <<>>
    /\ extract = <<>>

\* one call of _remove_small_holes, on the result of the call before
RemoveSmallHolesCall ==
    /\ Len(hole_runs) <= MaxCalls
    /\ hole_runs' = Append(hole_runs, remove_small_holes(hole_runs[Len(hole_runs)]))
    /\ UNCHANGED <<run_vars, name_runs, extract, before, search, client, enum>>

HolesNext == RemoveSmallHolesCall

HolesSpec == HolesInit /\ [][HolesNext]_vars

-----------------------------------------------------------------------------
(* Output file names over successive runs.                                 *)

MaxRuns == 2

\* the tax years runs are asked for, one after the other
NameYears == {202, 2023, 2024}

NamesInit ==
    /\ NoRun
    /\ hole_runs = <<>>
    /\ name_runs = <<>>
    /\ enum = <<>>
    /\ client = <<>>
    /\ search = <<>>
    /\ before = <<>>
    /\ extract = <<>>

\* a run with arguments (y, a) opens its output file
RunWritesFile(y, a) ==
    /\ Len(name_runs) < MaxRuns
    /\ name_runs' = Append(name_runs,
                           [year |-> y, aggregate |-> a, output |-> OutputName(y, a)])
    /\ UNCHANGED <<run_vars, hole_runs, extract, before, search, client, enum>>

NamesNext == \E y \in NameYears, a \in AGGREGATE_CHOICES : RunWritesFile(y, a)

NamesSpec == NamesInit /\ [][NamesNext]_vars

-----------------------------------------------------------------------------
(* extract_payments (src/src/jc_taxes/payments.py): the payment ledger is  *)
(* built from the cached account responses, one JSON file per account.     *)
(* Amounts are whole numbers here; the source signs Paid negative.         *)

MaxDetails == 2

\* TaxYear, Billed and Paid of a Details entry as the billing system sends
\* them; 0 is also an absent or null member, which the code reads as 0
\* ("if not year", "d.get(name, 0) or 0")
DetailYears == {0, 2023, 2024}
DetailPaid == {0, -600, 250}
DetailBilled == {600}

DetailEntries ==
    [TaxYear : DetailYears, Billed : DetailBilled, Paid : DetailPaid]

\* the accountInquiryVM of a cached response, without its Details
AccountHeaders ==
    { [AccountNumber |-> 1, Block |-> "18702", Lot |-> "27 ", Qualifier |-> ""],
      [AccountNumber |-> 2, Block |-> "100", Lot |-> "5", Qualifier |-> "C0001"] }

\* the cached responses a cache directory may hold
CachedResponses ==
    { [accountInquiryVM |-> [AccountNumber |-> h.AccountNumber, Block |-> h.Block,
                             Lot |-> h.Lot, Qualifier |-> h.Qualifier,
                             Details |-> d]] :
        h \in AccountHeaders, d \in UNION {[1..n -> DetailEntries] : n \in 0..MaxDetails} }

\* a second file of the directory
LaterResponses ==
    { [accountInquiryVM |-> [AccountNumber |-> 3, Block |-> "100", Lot |-> "6",
                             Qualifier |-> "", Details |-> d]] :
        d \in { <<>>,
                <<[TaxYear |-> 2024, Billed |-> 600, Paid |-> -600],
                  [TaxYear |-> 2024, Billed |-> 600, Paid |-> 250]>> } }

\* by_year after the loop over the first n Details entries: the years seen,
\* in the order of their first entry, and the running totals of each
RECURSIVE by_year(_, _)
by_year(details, n) ==
    IF n = 0 THEN [years |-> <<>>, totals |-> <<>>]
    ELSE LET sofar == by_year(details, n - 1)
             d == details[n]
             y == d.TaxYear
             seen == \E i \in DOMAIN sofar.years : sofar.years[i] = y
             years == IF seen THEN sofar.years ELSE Append(sofar.years, y)
             old == IF seen
                    THEN sofar.totals[CHOOSE i \in DOMAIN sofar.years :
                                            sofar.years[i] = y]
                    ELSE [billed |-> 0, paid |-> 0]
             new == [billed |-> old.billed + d.Billed,
                     paid |-> old.paid + d.Paid]
         IN  IF y = 0 THEN sofar
             ELSE [years |-> years,
                   totals |-> [i \in DOMAIN years |->
                                  IF years[i] = y THEN new ELSE sofar.totals[i]]]

\* faulty variant of PaidOf: the summed amount keeps the sign of the source
PaidOfSigned(totals) == totals.paid

\* "Paid": abs(totals["paid"])
PaidOf(totals) == Abs(totals.paid)

\* the records appended for one cached response
FileRecords(data) ==
    LET acct == data.accountInquiryVM
        by == by_year(acct.Details, Len(acct.Details))
    IN  [i \in DOMAIN by.years |->
            [AccountNumber |-> acct.AccountNumber,
             Block |-> Strip(acct.Block),
             Lot |-> Strip(acct.Lot),
             Qualifier |-> Strip(acct.Qualifier),
             Year |-> by.years[i],
             Billed |-> by.totals[i].billed,
             Paid |-> PaidOf(by.totals[i])]]

ExtractInit ==
    /\ NoRun
    /\ hole_runs = <<>>
    /\ name_runs = <<>>
    /\ enum = <<>>
    /\ client = <<>>
    /\ search = <<>>
    /\ before = <<>>
    /\ \E first \in CachedResponses, rest \in {<<>>} \cup {<<r>> : r \in LaterResponses} :
          extract = [json_files |-> <<first>> \o rest, i |-> 0, records |-> <<>>,
                     output |-> [exists |-> FALSE, rows |-> <<>>]]

\* one pass of the loop over json_files
ExtractFile ==
    /\ extract # <<>>
    /\ ~extract.output.exists
    /\ extract.i < Len(extract.json_files)
    /\ extract' = [extract EXCEPT
                      !.i = @ + 1,
                      !.records = @ \o FileRecords(extract.json_files[extract.i + 1])]
    /\ UNCHANGED <<run_vars, hole_runs, name_runs, before, search, client, enum>>

\* df.to_parquet(output, index=False); return df
ExtractWrite ==
    /\ extract # <<>>
    /\ ~extract.output.exists
    /\ extract.i = Len(extract.json_files)
    /\ extract' = [extract EXCEPT !.output = [exists |-> TRUE, rows |-> extract.records]]
    /\ UNCHANGED <<run_vars, hole_runs, name_runs, before, search, client, enum>>

ExtractNext == ExtractFile \/ ExtractWrite

ExtractSpec == ExtractInit /\ [][ExtractNext]_vars

-----------------------------------------------------------------------------
(* The run under an external interrupt.  The output file is opened for      *)
(* writing, which creates or empties it, json.dump writes the collection    *)
(* piece by piece, and leaving the with block closes the file.  An          *)
(* interrupt (SIGINT, raised as KeyboardInterrupt) may arrive between any   *)
(* two statements; the with block closes the file on the way out, so what   *)
(* was written stays.                                                       *)

\* the output of an earlier run of the same year and level
EarlierOutput(y, a) == WriteFile(NoFiles, OutputName(y, a), FeatureCollection({}))

\* a file that holds the first n features of the collection and is not
\* closed by the closing brackets: not a FeatureCollection
PartialFile(n) == [partial |-> TRUE, written |-> n]

InterruptInit ==
    /\ pc = "start"
    /\ aggregate \in AGGREGATE_CHOICES
    /\ year \in RunYears
    /\ payments_exists \in BOOLEAN
    /\ ledger = {}
    /\ parcels = {}
    /\ payments = {}
    /\ pay_agg = NoFiles
    /\ pay_dict = NoFiles
    /\ redistributions = <<>>
    /\ lot_gdf = {}
    /\ cb_gdf = {}
    /\ overlay = {}
    /\ cb_result = {}
    /\ ward_result = {}
    /\ features = {}
    /\ files \in {NoFiles, EarlierOutput(year, aggregate)}
    /\ before = files
    /\ result = [returned |-> FALSE, value |-> EmptyDict]
    /\ stderr = <<>>
    /\ hole_runs = <<>>
    /\ name_runs = <<>>
    /\ enum = <<>>
    /\ client = <<>>
    /\ search = <<>>
    /\ extract = <<>>

\* err(f"Generated {len(features)} features"), then the dict of the collection
\* and the name of the output (direct levels)
ErrGenerated ==
    /\ pc = "write"
    /\ stderr' = stderr \o <<"Generated features">>
    /\ pc' = "open"
    /\ UNCHANGED <<other_vars, aggregate, year, payments_exists, ledger, parcels,
                   payments, pay_agg, pay_dict, redistributions, lot_gdf, cb_gdf,
                   overlay, cb_result, ward_result, features, files, result>>

\* open(output, "w"): the file exists and is empty from here on
OpenOutput ==
    /\ pc \in {"open", "write_geojson"}
    /\ files' = WriteFile(files, OutputName(year, aggregate), PartialFile(0))
    /\ pc' = "dump"
    /\ UNCHANGED <<other_vars, aggregate, year, payments_exists, ledger, parcels,
                   payments, pay_agg, pay_dict, redistributions, lot_gdf, cb_gdf,
                   overlay, cb_result, ward_result, features, result, stderr>>

\* json.dump: the next feature is written
DumpFeature ==
    /\ pc = "dump"
    /\ files[OutputName(year, aggregate)].written < Cardinality(features)
    /\ files' = WriteFile(files, OutputName(year, aggregate),
                          PartialFile(files[OutputName(year, aggregate)].written + 1))
    /\ UNCHANGED <<other_vars, pc, aggregate, year, payments_exists, ledger, parcels,
                   payments, pay_agg, pay_dict, redistributions, lot_gdf, cb_gdf,
                   overlay, cb_result, ward_result, features, result, stderr>>

\* json.dump writes the closing brackets and the with block closes the file
CloseOutput ==
    /\ pc = "dump"
    /\ files[OutputName(year, aggregate)].written = Cardinality(features)
    /\ files' = WriteFile(files, OutputName(year, aggregate), FeatureCollection(features))
    /\ pc' = "closed"
    /\ UNCHANGED <<other_vars, aggregate, year, payments_exists, ledger, parcels,
                   payments, pay_agg, pay_dict, redistributions, lot_gdf, cb_gdf,
                   overlay, cb_result, ward_result, features, result, stderr>>

\* err(f"Wrote {output} (... MB)")
ErrWrote ==
    /\ pc = "closed"
    /\ stderr' = stderr \o <<"Wrote">>
    /\ pc' = "return"
    /\ UNCHANGED <<other_vars, aggregate, year, payments_exists, ledger, parcels,
                   payments, pay_agg, pay_dict, redistributions, lot_gdf, cb_gdf,
                   overlay, cb_result, ward_result, features, files, result>>

\* return geojson
ReturnGeojson ==
    /\ pc = "return"
    /\ result' = [returned |-> TRUE, value |-> FeatureCollection(features)]
    /\ pc' = "done"
    /\ UNCHANGED <<other_vars, aggregate, year, payments_exists, ledger, parcels,
                   payments, pay_agg, pay_dict, redistributions, lot_gdf, cb_gdf,
                   overlay, cb_result, ward_result, features, files, stderr>>

\* KeyboardInterrupt leaves generate_yearly_geojson: between two steps, or
\* inside a step that computes and prints, after n of its messages; what the
\* step had computed so far is lost with the frame of the function
Interrupt ==
    /\ pc \notin {"idle", "done", "raised", "interrupted"}
    /\ \E n \in 0..Len(Messages) :
          /\ n > 0 => pc \notin {"write", "write_geojson"}
          /\ stderr' = stderr \o SubSeq(Messages, 1, n)
    /\ pc' = "interrupted"
    /\ UNCHANGED <<other_vars, aggregate, year, payments_exists, ledger, parcels,
                   payments, pay_agg, pay_dict, redistributions, lot_gdf, cb_gdf,
                   overlay, cb_result, ward_result, features, files, result>>

InterruptNext ==
    \/ AbortNoPayments
    \/ LoadData
    \/ AggregatePayments
    \/ Redistribute
    \/ BuildFeatures
    \/ LotPayments
    \/ LotRedistribute
    \/ LotRows
    \/ Overlay
    \/ CensusAggregate
    \/ CensusFeatures
    \/ AggregateToWards
    \/ ErrGenerated
    \/ OpenOutput
    \/ DumpFeature
    \/ CloseOutput
    \/ ErrWrote
    \/ ReturnGeojson
    \/ Interrupt

InterruptSpec == InterruptInit /\ [][InterruptNext]_vars

-----------------------------------------------------------------------------
(* HLSClient.search_by_block (src/src/jc_taxes/api.py): the accounts of a   *)
(* block, page by page.  The server answers every request; an account is    *)
(* the pair <<page, position>> it is listed at.                             *)

MaxPages == 3
MaxListed == 2

\* recCount as the server reports it
Totals == {t \in 0..(10 * MaxPages) : t % 10 \in {0, 1, 5}}

\* the accounts member of the answer to page p when it lists n accounts
Listing(p, n) == [k \in 1..n |-> <<p, k>>]

\* the servers: what each page lists, and the total reported
Servers ==
    [recCount : Totals, listed : [1..MaxPages -> 0..MaxListed]]

\* search_accounts("BLQ", block, page): the accounts and recCount of the answer
search_accounts(server, page) ==
    [accounts |-> Listing(page, server.listed[page]), total |-> server.recCount]

SearchInit ==
    /\ NoRun
    /\ hole_runs = <<>>
    /\ name_runs = <<>>
    /\ enum = <<>>
    /\ client = <<>>
    /\ extract = <<>>
    /\ before = <<>>
    /\ \E server \in Servers :
          search = [server |-> server, page |-> 1, requested |-> <<>>,
                    accounts |-> <<>>, total |-> 0, i |-> 1,
                    yielded |-> <<>>, pc |-> "loop"]

\* faulty variant of LastPage: a page that reaches the total exactly is not
\* taken as the last
LastPageStrict(page, total) == page * 10 > total

\* "if page * 10 >= total: break"
LastPage(page, total) == page * 10 >= total

\* "accounts, total = self.search_accounts("BLQ", block, page)" and
\* "if not accounts: break"
SearchPage ==
    /\ search # <<>>
    /\ search.pc = "loop"
    /\ LET answer == search_accounts(search.server, search.page)
       IN  search' = [search EXCEPT !.requested = Append(@, search.page),
                                    !.accounts = answer.accounts,
                                    !.total = answer.total,
                                    !.i = 1,
                                    !.pc = IF answer.accounts = <<>> THEN "done"
                                           ELSE "yield"]
    /\ UNCHANGED <<run_vars, hole_runs, name_runs, extract, before, client, enum>>

\* "yield from accounts": the next account of the page goes to the caller,
\* and the generator waits there until the caller asks for another
YieldAccount ==
    /\ search # <<>>
    /\ search.pc = "yield"
    /\ search.i <= Len(search.accounts)
    /\ search' = [search EXCEPT !.yielded = Append(@, search.accounts[search.i]),
                                !.i = @ + 1]
    /\ UNCHANGED <<run_vars, hole_runs, name_runs, extract, before, client, enum>>

\* the page is exhausted: "if page * 10 >= total: break", else "page += 1"
NextPage ==
    /\ search # <<>>
    /\ search.pc = "yield"
    /\ search.i > Len(search.accounts)
    /\ search' = IF LastPage(search.page, search.total)
                 THEN [search EXCEPT !.pc = "done"]
                 ELSE [search EXCEPT !.page = @ + 1, !.pc = "loop"]
    /\ UNCHANGED <<run_vars, hole_runs, name_runs, extract, before, client, enum>>

\* the caller leaves its loop and drops the generator where it waits: before
\* the first request, or at a yield (the --limit of the search command)
Abandon ==
    /\ search # <<>>
    /\ \/ search.pc = "loop" /\ search.requested = <<>>
       \/ search.pc = "yield" /\ search.i > 1
    /\ search' = [search EXCEPT !.pc = "closed"]
    /\ UNCHANGED <<run_vars, hole_runs, name_runs, extract, before, client, enum>>

\* the steps of the generator
SearchStep == SearchPage \/ YieldAccount \/ NextPage

SearchNext == SearchStep \/ Abandon

\* a caller that has not dropped the generator asks for the next account
SearchSpec == SearchInit /\ [][SearchNext]_vars /\ WF_vars(SearchStep)

-----------------------------------------------------------------------------
(* HLSClient.get_account_details (src/src/jc_taxes/api.py): the cache of    *)
(* account responses.  Time is in whole seconds; a cache file is the data   *)
(* saved and the time of its last modification.                             *)

MaxClock == 4

\* _get: stop_after_attempt(3)
ATTEMPTS == 3

Accounts == {"9806-8-C0608"}

\* the ttl argument: None, a number of seconds, or a number followed by a unit
TtlArguments ==
    { [type |-> "None", number |-> 0, text |-> ""],
      [type |-> "int", number |-> 1, text |-> ""],
      [type |-> "str", number |-> 0, text |-> "2s"],
      [type |-> "str", number |-> 0, text |-> "1m"],
      [type |-> "str", number |-> 0, text |-> "3"] }

\* units of parse_ttl
TtlUnits == [s |-> 1, m |-> 60, h |-> 3600, d |-> 86400, w |-> 604800]

\* the strings of TtlArguments: ttl[-1], float(ttl[:-1]) and float(ttl)
LastChar(text) == CASE text = "2s" -> "s" [] text = "1m" -> "m" [] text = "3" -> "3"
AllButLast(text) == CASE text = "2s" -> 2 [] text = "1m" -> 1
Float(text) == CASE text = "3" -> 3

\* timedelta(seconds=n)
timedelta(n) == <<n>>

\* parse_ttl: None or a timedelta
parse_ttl(ttl) ==
    IF ttl.type = "None" THEN None
    ELSE IF ttl.type = "int" THEN timedelta(ttl.number)
    ELSE IF LastChar(ttl.text) \in DOMAIN TtlUnits
         THEN timedelta(AllButLast(ttl.text) * TtlUnits[LastChar(ttl.text)])
         ELSE timedelta(Float(ttl.text))

\* what the server sends for one attempt of a request: the details of the
\* account, an invalid-account response, a response that says the account is
\* valid and lacks its details, an HTTP error status
Answers == {"valid", "invalid", "malformed", "status_error"}

\* resp.json() of an answer to a request for account at time now
ResponseData(answer, account, now) ==
    [validAccountNumber |-> (answer \in {"valid", "malformed"}),
     accountInquiryVM |-> IF answer = "malformed" THEN None
                          ELSE [AccountNumber |-> account],
     as_of |-> now]

\* "return AccountResponse.model_validate(data)": accountInquiryVM is a
\* required field of the model
Validate(data) ==
    IF data.accountInquiryVM = None
    THEN [ended |-> "ValidationError", value |-> None]
    ELSE [ended |-> "returned", value |-> data]

\* wait_exponential(multiplier=1, min=2, max=10): the seconds _get sleeps
\* after its failed attempt number n
RetryWait(n) ==
    LET exp == IF n = 1 THEN 1 ELSE IF n = 2 THEN 2 ELSE 4
    IN  IF exp < 2 THEN 2 ELSE IF exp > 10 THEN 10 ELSE exp

\* faulty variant of Expired: an entry as old as the ttl is expired
ExpiredAtTtl(now, mtime, ttl) == now - mtime >= ttl[1]

\* "datetime.now() - mtime > ttl"
Expired(now, mtime, ttl) == now - mtime > ttl[1]

\* _load_cache(account, ttl): the cached data or None
load_cache(cache_dir, account, ttl, now) ==
    IF account \notin DOMAIN cache_dir THEN None
    ELSE IF ttl # None /\ Expired(now, cache_dir[account].mtime, ttl) THEN None
    ELSE cache_dir[account].data

\* _save_cache(account, data)
save_cache(cache_dir, account, data, now) ==
    [a \in DOMAIN cache_dir \cup {account} |->
        IF a = account THEN [data |-> data, mtime |-> now] ELSE cache_dir[a]]

\* the call get_account_details(account, use_cache=use_cache, ttl=ttl) as it
\* starts: the cache directory and the time at the cache check, and what is
\* known of its course so far
Call(account, use_cache, ttl) ==
    [account |-> account, use_cache |-> use_cache, ttl |-> ttl,
     cache_before |-> client.cache_dir, now |-> client.now, cache_read |-> use_cache,
     requests |-> 0, answer |-> "", not_before |-> client.now, data |-> None,
     saved |-> FALSE, ended |-> "", value |-> None]

\* the call under way ends: it returns value or raises
Ended(call, ended, value) ==
    [client EXCEPT !.pc = "idle", !.cur = None,
                   !.calls = <<[call EXCEPT !.ended = ended, !.value = value]>>]

ClientInit ==
    /\ NoRun
    /\ hole_runs = <<>>
    /\ name_runs = <<>>
    /\ enum = <<>>
    /\ extract = <<>>
    /\ before = <<>>
    /\ search = <<>>
    /\ client = [cache_dir |-> NoFiles, now |-> 0, pc |-> "idle", cur |-> None,
                 calls |-> <<>>]

\* get_account_details(account, use_cache=use_cache, ttl=ttl) up to the
\* request: parse_ttl, the cache check, and the return of a cached response
GetAccountDetails(account, use_cache, ttl) ==
    /\ client # <<>>
    /\ client.pc = "idle"
    /\ LET ttl_delta == parse_ttl(ttl)
           cached == IF use_cache
                     THEN load_cache(client.cache_dir, account, ttl_delta, client.now)
                     ELSE None
           call == Call(account, use_cache, ttl)
       IN  client' = IF use_cache /\ cached # None /\ cached # EmptyDict
                     THEN Ended(call, Validate(cached).ended, Validate(cached).value)
                     ELSE [client EXCEPT !.pc = "get", !.cur = call]
    /\ UNCHANGED <<run_vars, hole_runs, name_runs, extract, before, search, enum>>

\* one attempt of _get under @retry, answered by the server: an error status
\* is retried after the wait, and after the last attempt tenacity raises
\* RetryError, which "except httpx.HTTPStatusError" does not catch; an
\* invalid-account response returns None
Get(answer) ==
    /\ client # <<>>
    /\ client.pc = "get"
    /\ client.now >= client.cur.not_before
    /\ LET call == [client.cur EXCEPT !.requests = @ + 1, !.answer = answer]
           data == ResponseData(answer, call.account, client.now)
       IN  client' =
              IF answer = "status_error"
              THEN IF call.requests = ATTEMPTS
                   THEN Ended(call, "RetryError", None)
                   ELSE [client EXCEPT
                            !.cur = [call EXCEPT !.not_before =
                                        client.now + RetryWait(call.requests)]]
              ELSE IF ~data.validAccountNumber
              THEN Ended(call, "returned", None)
              ELSE [client EXCEPT !.cur = [call EXCEPT !.data = data],
                                  !.pc = IF call.use_cache THEN "save" ELSE "validate"]
    /\ UNCHANGED <<run_vars, hole_runs, name_runs, extract, before, search, enum>>

\* "if use_cache: self._save_cache(account, data)"
SaveCache ==
    /\ client # <<>>
    /\ client.pc = "save"
    /\ client' = [client EXCEPT
                     !.cache_dir = save_cache(@, client.cur.account, client.cur.data,
                                              client.now),
                     !.cur = [@ EXCEPT !.saved = TRUE],
                     !.pc = "validate"]
    /\ UNCHANGED <<run_vars, hole_runs, name_runs, extract, before, search, enum>>

\* "return AccountResponse.model_validate(data)"
ReturnResponse ==
    /\ client # <<>>
    /\ client.pc = "validate"
    /\ client' = Ended(client.cur, Validate(client.cur.data).ended,
                       Validate(client.cur.data).value)
    /\ UNCHANGED <<run_vars, hole_runs, name_runs, extract, before, search, enum>>

\* a second passes: between calls, in the sleeps of the rate limiter and of
\* the retries, while a request is under way
Tick ==
    /\ client # <<>>
    /\ client.now < MaxClock
    /\ client' = [client EXCEPT !.now = @ + 1]
    /\ UNCHANGED <<run_vars, hole_runs, name_runs, extract, before, search, enum>>

ClientNext ==
    \/ \E account \in Accounts, use_cache \in BOOLEAN, ttl \in TtlArguments :
          GetAccountDetails(account, use_cache, ttl)
    \/ \E answer \in Answers : Get(answer)
    \/ SaveCache
    \/ ReturnResponse
    \/ Tick

ClientSpec == ClientInit /\ [][ClientNext]_vars

-----------------------------------------------------------------------------
(* enumerate_accounts (src/src/jc_taxes/cli.py): the account index is built *)
(* block by block and saved on a checkpoint, on an interrupt and at the     *)
(* end; a later run with the same output file resumes from it.              *)

MaxAccounts == 2
MaxRestarts == 1

\* "Checkpoint every 50 blocks"
CHECKPOINT_BLOCKS == 50

\* sorted(parcels['block'].dropna().unique().tolist()), of a parcels file
\* with three blocks and of one with 52: the blocks "100" to "149", "18702"
\* and "200", in the order of strings
FewBlocks == <<"100", "18702", "200">>
ParcelBlocks == [k \in 1..CHECKPOINT_BLOCKS |-> ToString(99 + k)] \o <<"18702", "200">>

\* the blocks whose number of accounts differs from server to server: all of
\* a short list, the first and the last of a long one; every other block
\* lists one account
VariedBlocks(blocks) ==
    IF Len(blocks) < CHECKPOINT_BLOCKS THEN {blocks[k] : k \in DOMAIN blocks}
    ELSE {blocks[1], blocks[Len(blocks)]}

\* the servers: the number of accounts listed under each block
Listings(blocks) ==
    {[b \in {blocks[k] : k \in DOMAIN blocks} |->
         IF b \in VariedBlocks(blocks) THEN v[b] ELSE 1] :
        v \in [VariedBlocks(blocks) -> 0..MaxAccounts]}

\* list(client.search_by_block(block)) on a server that lists n accounts
\* under the block
BlockAccounts(block, n) ==
    [k \in 1..n |-> [Block |-> block, AccountNumber |-> <<block, k>>]]

\* the blocks of seq that satisfy Keep, in order
RECURSIVE SelectBlocks(_, _)
SelectBlocks(seq, keep) ==
    IF seq = <<>> THEN <<>>
    ELSE (IF Head(seq) \in keep THEN <<Head(seq)>> ELSE <<>>)
             \o SelectBlocks(Tail(seq), keep)

\* set(existing['Block'].unique())
ExistingBlocks(file) == {file.rows[k].Block : k \in DOMAIN file.rows}

\* faulty variant of RemainingBlocks: the blocks of the saved file are not
\* left out
RemainingBlocksAll(blocks, existing_blocks) == blocks

\* [b for b in blocks if b not in existing_blocks]
RemainingBlocks(blocks, existing_blocks) ==
    SelectBlocks(blocks, {blocks[k] : k \in DOMAIN blocks} \ existing_blocks)

\* the output file: absent, a parquet file with its rows, or a file that
\* df.to_parquet has opened for writing and not finished, which no reader
\* accepts
NoIndex == [exists |-> FALSE, readable |-> FALSE, rows |-> <<>>]
CutIndex == [exists |-> TRUE, readable |-> FALSE, rows |-> <<>>]
Index(rows) == [exists |-> TRUE, readable |-> TRUE, rows |-> rows]

\* the run that has just started: the blocks are listed and the progress of
\* the output file is loaded; pd.read_parquet raises on a file cut short,
\* outside the try statement
NewRun(file, block_list) ==
    LET loaded == file.exists /\ file.readable
        existing_blocks == IF loaded THEN ExistingBlocks(file) ELSE {}
    IN  [pc |-> IF file.exists /\ ~file.readable THEN "ended" ELSE "loop",
         at |-> "",
         blocks |-> IF loaded THEN RemainingBlocks(block_list, existing_blocks)
                    ELSE block_list,
         i |-> 0,
         all_accounts |-> IF loaded THEN file.rows ELSE <<>>,
         existing_blocks |-> existing_blocks,
         searched |-> <<>>,
         completed |-> <<>>,
         caught |-> "",
         ended |-> IF file.exists /\ ~file.readable THEN "read_parquet raised" ELSE ""]

EnumInit ==
    /\ NoRun
    /\ hole_runs = <<>>
    /\ name_runs = <<>>
    /\ extract = <<>>
    /\ before = <<>>
    /\ search = <<>>
    /\ client = <<>>
    /\ \E block_list \in {FewBlocks, ParcelBlocks} :
          \E listed \in Listings(block_list) :
              enum = [blocks |-> block_list,
                      server |-> listed,
                      file |-> NoIndex,
                      runs |-> <<NewRun(NoIndex, block_list)>>]

\* the run under way
ThisRun == enum.runs[Len(enum.runs)]

\* one pass of the loop over blocks up to the test of the checkpoint: the
\* block is searched and its accounts are added; after every 50th block
\* save_progress is called
SearchBlock ==
    /\ enum # <<>>
    /\ ThisRun.pc = "loop"
    /\ ThisRun.i < Len(ThisRun.blocks)
    /\ LET block == ThisRun.blocks[ThisRun.i + 1]
           accounts == BlockAccounts(block, enum.server[block])
           checkpoint == (ThisRun.i + 1) % CHECKPOINT_BLOCKS = 0
       IN  enum' = [enum EXCEPT
                       !.runs[Len(enum.runs)] =
                           [@ EXCEPT !.i = @ + 1,
                                     !.all_accounts = @ \o accounts,
                                     !.searched = Append(@, block),
                                     !.completed = Append(@, block),
                                     !.pc = IF checkpoint THEN "checkpoint" ELSE "loop",
                                     !.at = IF checkpoint THEN "call" ELSE ""]]
    /\ UNCHANGED <<run_vars, hole_runs, name_runs, extract, before, search, client>>

\* KeyboardInterrupt or an exception inside the try statement: between two
\* blocks, while a block is searched, or (KeyboardInterrupt) anywhere in the
\* save_progress of a checkpoint; the except clause is entered and calls
\* save_progress
Interrupted(exception, during_search) ==
    /\ enum # <<>>
    /\ ThisRun.pc \in {"loop", "checkpoint"}
    /\ during_search => ThisRun.pc = "loop" /\ ThisRun.i < Len(ThisRun.blocks)
    /\ exception = "Exception" => during_search
    /\ enum' = [enum EXCEPT
                   !.runs[Len(enum.runs)] =
                       [@ EXCEPT !.pc = "except",
                                 !.at = "call",
                                 !.caught = exception,
                                 !.searched = IF during_search
                                              THEN Append(@, ThisRun.blocks[ThisRun.i + 1])
                                              ELSE @]]
    /\ UNCHANGED <<run_vars, hole_runs, name_runs, extract, before, search, client>>

\* the loop and the with block are left: the else clause is entered and
\* calls save_progress
LoopDone ==
    /\ enum # <<>>
    /\ ThisRun.pc = "loop"
    /\ ThisRun.i = Len(ThisRun.blocks)
    /\ enum' = [enum EXCEPT !.runs[Len(enum.runs)] = [@ EXCEPT !.pc = "else", !.at = "call"]]
    /\ UNCHANGED <<run_vars, hole_runs, name_runs, extract, before, search, client>>

\* save_progress, df.to_parquet(output_path) begins: with an account to
\* write, the output file is opened for writing in place, which empties it
OpenIndex ==
    /\ enum # <<>>
    /\ ThisRun.at = "call"
    /\ ThisRun.all_accounts # <<>>
    /\ enum' = [enum EXCEPT !.runs[Len(enum.runs)].at = "open",
                            !.file = CutIndex]
    /\ UNCHANGED <<run_vars, hole_runs, name_runs, extract, before, search, client>>

\* save_progress, df.to_parquet(output_path) ends: the file holds every
\* account gathered so far
WriteIndex ==
    /\ enum # <<>>
    /\ ThisRun.at = "open"
    /\ enum' = [enum EXCEPT !.runs[Len(enum.runs)].at = "written",
                            !.file = Index(ThisRun.all_accounts)]
    /\ UNCHANGED <<run_vars, hole_runs, name_runs, extract, before, search, client>>

\* save_progress is about to return: the index is written and the message is
\* to be printed, or there was no account to write
SaveReturns ==
    \/ ThisRun.at = "written"
    \/ ThisRun.at = "call" /\ ThisRun.all_accounts = <<>>

\* the save_progress of a checkpoint returns: the loop goes on
Checkpointed ==
    /\ enum # <<>>
    /\ ThisRun.pc = "checkpoint"
    /\ SaveReturns
    /\ enum' = [enum EXCEPT !.runs[Len(enum.runs)] = [@ EXCEPT !.pc = "loop", !.at = ""]]
    /\ UNCHANGED <<run_vars, hole_runs, name_runs, extract, before, search, client>>

\* except: save_progress returns, then sys.exit(130) after a
\* KeyboardInterrupt and raise after an exception
Exit ==
    /\ enum # <<>>
    /\ ThisRun.pc = "except"
    /\ SaveReturns
    /\ enum' = [enum EXCEPT
                   !.runs[Len(enum.runs)] =
                       [@ EXCEPT !.pc = "ended", !.at = "", !.ended = ThisRun.caught]]
    /\ UNCHANGED <<run_vars, hole_runs, name_runs, extract, before, search, client>>

\* else: save_progress("Done: ") returns and the command ends
SaveDone ==
    /\ enum # <<>>
    /\ ThisRun.pc = "else"
    /\ SaveReturns
    /\ enum' = [enum EXCEPT
                   !.runs[Len(enum.runs)] =
                       [@ EXCEPT !.pc = "ended", !.at = "", !.ended = "Done"]]
    /\ UNCHANGED <<run_vars, hole_runs, name_runs, extract, before, search, client>>

\* KeyboardInterrupt while an except clause runs, before df.to_parquet,
\* inside it or after it: it leaves the command with the output file as it
\* is at that moment
InterruptedInExcept ==
    /\ enum # <<>>
    /\ ThisRun.pc = "except"
    /\ enum' = [enum EXCEPT
                   !.runs[Len(enum.runs)] =
                       [@ EXCEPT !.pc = "ended", !.at = "",
                                 !.ended = "KeyboardInterrupt in except"]]
    /\ UNCHANGED <<run_vars, hole_runs, name_runs, extract, before, search, client>>

\* KeyboardInterrupt in the else clause, which no except clause covers,
\* before df.to_parquet, inside it or after it: the run ends with the output
\* file as it is at that moment
InterruptedInElse ==
    /\ enum # <<>>
    /\ ThisRun.pc = "else"
    /\ enum' = [enum EXCEPT
                   !.runs[Len(enum.runs)] =
                       [@ EXCEPT !.pc = "ended", !.at = "",
                                 !.ended = "KeyboardInterrupt in else"]]
    /\ UNCHANGED <<run_vars, hole_runs, name_runs, extract, before, search, client>>

\* the command is run again with the same output file, after a run that was
\* interrupted or one that ended normally
Rerun ==
    /\ enum # <<>>
    /\ ThisRun.pc = "ended"
    /\ Len(enum.runs) <= MaxRestarts
    /\ enum' = [enum EXCEPT !.runs = Append(@, NewRun(enum.file, enum.blocks))]
    /\ UNCHANGED <<run_vars, hole_runs, name_runs, extract, before, search, client>>

EnumNext ==
    \/ SearchBlock
    \/ \E exception \in {"KeyboardInterrupt", "Exception"}, during_search \in BOOLEAN :
          Interrupted(exception, during_search)
    \/ LoopDone
    \/ OpenIndex
    \/ WriteIndex
    \/ Checkpointed
    \/ Exit
    \/ SaveDone
    \/ InterruptedInExcept
    \/ InterruptedInElse
    \/ Rerun

EnumSpec == EnumInit /\ [][EnumNext]_vars

-----------------------------------------------------------------------------
(* _build_lot_gdf on its own: the parcels frame may hold, under one lot,    *)
(* a record whose geometry is in NJ State Plane feet next to one in WGS84.  *)

\* a unit of lot 200-1 with a WKB geometry in feet; the lot's other record
\* of ParcelCatalogue has a GeoJSON shape in degrees
FeetUnitOfDegreeLot ==
    [block |-> "200", lot |-> "1", qual |-> "C0002", enc |-> "wkb",
     geom |-> Shape({8}, "ft")]

LotParcelCatalogue == ParcelCatalogue \cup {FeetUnitOfDegreeLot}

\* the call _build_lot_gdf(parcels, payments)
LotGdfInit ==
    /\ pc = "lot_keys"
    /\ aggregate \in {"census-block", "ward"}
    /\ year \in RunYears
    /\ payments_exists = TRUE
    /\ parcels \in UpTo(LotParcelCatalogue, MaxParcels)
    /\ ledger \in UpTo(LedgerCatalogue, MaxRows)
    /\ payments = {r \in ledger : r.Year = year}
    /\ pay_agg = NoFiles
    /\ pay_dict = NoFiles
    /\ redistributions = <<>>
    /\ lot_gdf = {}
    /\ cb_gdf = {}
    /\ overlay = {}
    /\ cb_result = {}
    /\ ward_result = {}
    /\ features = {}
    /\ files = NoFiles
    /\ result = [returned |-> FALSE, value |-> EmptyDict]
    /\ stderr = <<>>
    /\ hole_runs = <<>>
    /\ name_runs = <<>>
    /\ extract = <<>>
    /\ before = <<>>
    /\ search = <<>>
    /\ client = <<>>
    /\ enum = <<>>

LotGdfNext == LotPayments \/ LotRedistribute \/ LotRows

LotGdfSpec == LotGdfInit /\ [][LotGdfNext]_vars

-----------------------------------------------------------------------------
(* Positions of the run.                                                   *)

CensusPath == payments_exists /\ aggregate \in {"census-block", "ward"}
DirectPath == payments_exists /\ aggregate \in {"unit", "lot", "block"}

\* the overlay has been computed
OverlayDone ==
    CensusPath /\ pc \in {"cb_agg", "wards", "cb_features", "write_geojson", "done"}

\* cb_result has been computed
CensusDone ==
    CensusPath /\ pc \in {"wards", "cb_features", "write_geojson", "done"}

\* ward_result has been computed
WardDone == CensusPath /\ aggregate = "ward" /\ pc \in {"write_geojson", "done"}

\* the omnibus step of the run is behind it
PastOmnibus ==
    \/ DirectPath /\ pc \in {"features", "write", "done", "raised"}
    \/ CensusPath /\ pc \in {"lot_rows", "overlay", "cb_agg", "wards",
                             "cb_features", "write_geojson", "done", "raised"}

-----------------------------------------------------------------------------
(* Overlay allocation.                                                     *)

\* the planar footprint of a lot row and of the census-block union
LotFootprint(l) == ToNjsp(l.geometry)
CensusUnion == UNION {ToNjsp(c.geometry) : c \in cb_gdf}
FragmentsOf(l) == {f \in overlay : f.join_key = l.join_key}
CoveredArea(l) == Area(LotFootprint(l) \cap CensusUnion)
FullyCovered(l) ==
    /\ RPos(Area(LotFootprint(l)))
    /\ LotFootprint(l) \subseteq CensusUnion

WeightSum(l) == RSum([f \in FragmentsOf(l) |-> f.weight], FragmentsOf(l))
PaidSum(l) == RSum([f \in FragmentsOf(l) |-> f.w_paid], FragmentsOf(l))
BilledSum(l) == RSum([f \in FragmentsOf(l) |-> f.w_billed], FragmentsOf(l))

\* C1: for every lot fully covered by the (non-overlapping) census blocks,
\* the weights of its overlay fragments sum to 1 and the weighted paid and
\* billed amounts sum to the lot's paid and billed.
C1_FullCoverageSums ==
    OverlayDone =>
        \A l \in lot_gdf :
            FullyCovered(l) =>
                /\ WeightSum(l) = ROne
                /\ PaidSum(l) = l.paid
                /\ BilledSum(l) = l.billed

\* a paying lot straddling two census blocks has been allocated
C1_Witness ==
    /\ OverlayDone
    /\ \E l \in lot_gdf :
          /\ FullyCovered(l)
          /\ RPos(l.paid)
          /\ Cardinality(FragmentsOf(l)) >= 2

\* the part of a lot's paid amount its covered area carries
CoveredShare(l) ==
    RMul(l.paid, RDiv(CoveredArea(l), Area(LotFootprint(l))))

LotsWithArea == {l \in lot_gdf : RPos(Area(LotFootprint(l)))}
TotalCoveredShare == RSum([l \in LotsWithArea |-> CoveredShare(l)], LotsWithArea)

\* C2: the share of a lot's paid amount that reaches the census-block totals
\* is paid * covered area / lot area; a partially covered lot has weights
\* summing to strictly less than 1, a lot outside all census blocks has no
\* fragment, and the uncovered share is in no census-block or ward total.
C2_CoveredShareOnly ==
    /\ OverlayDone =>
          \A l \in lot_gdf :
              /\ RPos(Area(LotFootprint(l))) => PaidSum(l) = CoveredShare(l)
              /\ ~FullyCovered(l) => RLt(WeightSum(l), ROne)
              /\ ~RPos(CoveredArea(l)) => FragmentsOf(l) = {}
    /\ CensusDone =>
          RSum([r \in cb_result |-> r.paid], cb_result) = TotalCoveredShare
    /\ WardDone =>
          RSum([r \in ward_result |-> r.paid], ward_result) = TotalCoveredShare

\* a paying lot half outside the census blocks and a lot wholly outside them
\* have gone through the ward roll-up
C2_Witness ==
    /\ WardDone
    /\ \E l \in lot_gdf :
          /\ RPos(l.paid)
          /\ RPos(CoveredArea(l))
          /\ ~FullyCovered(l)
          /\ RLt(PaidSum(l), l.paid)
    /\ \E l \in lot_gdf :
          /\ RPos(Area(LotFootprint(l)))
          /\ ~RPos(CoveredArea(l))

-----------------------------------------------------------------------------
(* Omnibus redistribution.                                                 *)

\* runs whose level uses lot payments
LotPaymentsRun == payments_exists /\ aggregate \in {"lot", "census-block", "ward"}

Groups == Range(OMNIBUS_LOT_GROUPS)
GroupTotal(pd, group, col) ==
    RSum([k \in Range(group.lots) |-> pd[k][col]], Range(group.lots))

\* C3: after redistributing a group whose source has a payment record, the
\* paid (billed) of the group's lot keys sum to the paid (billed) the source
\* had before.
C3_OmnibusPreservesTotal ==
    (LotPaymentsRun /\ PastOmnibus) =>
        \A g \in Groups :
            g.source \in DOMAIN pay_agg =>
                /\ Range(g.lots) \subseteq DOMAIN pay_dict
                /\ GroupTotal(pay_dict, g, "Paid") = pay_agg[g.source].Paid
                /\ GroupTotal(pay_dict, g, "Billed") = pay_agg[g.source].Billed

\* source 18702-29 with paid 120000 has been split into 40000 for each lot
C3_Witness ==
    /\ LotPaymentsRun /\ PastOmnibus
    /\ "18702-29" \in DOMAIN pay_agg
    /\ pay_agg["18702-29"].Paid = RInt(120000)
    /\ \A k \in {"18702-27", "18702-28", "18702-29"} :
          k \in DOMAIN pay_dict /\ pay_dict[k].Paid = RInt(40000)

\* C4: after redistribution every lot key of a group whose source is in the
\* ledger has paid = source_paid / n and billed = source_billed / n; a value
\* a sibling had is replaced and a sibling with no record is created.
C4_EvenSplit ==
    (LotPaymentsRun /\ PastOmnibus) =>
        \A g \in Groups :
            g.source \in DOMAIN pay_agg =>
                \A k \in Range(g.lots) :
                    /\ k \in DOMAIN pay_dict
                    /\ RMul(pay_dict[k].Paid, RInt(Len(g.lots))) = pay_agg[g.source].Paid
                    /\ RMul(pay_dict[k].Billed, RInt(Len(g.lots))) = pay_agg[g.source].Billed

\* a sibling with its own record and a sibling without one both hold the split
C4_Witness ==
    /\ LotPaymentsRun /\ PastOmnibus
    /\ "18702-29" \in DOMAIN pay_agg
    /\ "18702-27" \in DOMAIN pay_agg
    /\ pay_agg["18702-27"].Paid = RInt(600)
    /\ "18702-28" \notin DOMAIN pay_agg
    /\ pay_dict["18702-27"].Paid = RInt(40000)
    /\ pay_dict["18702-28"].Billed = RInt(42000)

\* the ledger rows of the selected year and their sums under a key
YearRows == {r \in ledger : r.Year = year}
UnitKeyOf(r) == Strip(r.Block) \o "-" \o Strip(r.Lot) \o "-" \o Strip(r.Qualifier)
BlockKeyOf(r) == Strip(r.Block)
LevelKeyOf(r) == IF aggregate = "unit" THEN UnitKeyOf(r) ELSE BlockKeyOf(r)
LevelSum(k, col) ==
    LET grp == {r \in YearRows : LevelKeyOf(r) = k}
    IN  RSum([r \in grp |-> RInt(r[col])], grp)

\* C5: at unit and block level the payment figures of every join key are the
\* per-key sums of the ledger rows; no omnibus redistribution is applied.
C5_NoOmnibusAtUnitOrBlock ==
    (DirectPath /\ aggregate \in {"unit", "block"} /\ PastOmnibus) =>
        /\ redistributions = <<>>
        /\ DOMAIN pay_dict = {LevelKeyOf(r) : r \in YearRows}
        /\ \A k \in DOMAIN pay_dict :
              /\ pay_dict[k].Paid = LevelSum(k, "Paid")
              /\ pay_dict[k].Billed = LevelSum(k, "Billed")
        /\ pc \in {"write", "done"} =>
              \A f \in features :
                  f.row.paid = IF f.key \in DOMAIN pay_dict
                               THEN LevelSum(f.key, "Paid") ELSE RZero

\* block 18702 holds the omnibus payment and a sibling's payment, summed
C5_Witness ==
    /\ DirectPath /\ aggregate = "block" /\ pc = "done"
    /\ "18702" \in DOMAIN pay_dict
    /\ pay_dict["18702"].Paid = RInt(120600)
    /\ \E f \in features : f.key = "18702" /\ f.row.paid = RInt(120600)


\* what holds of the redistribution in every state of a run
RedistributionState ==
    /\ \A i, j \in DOMAIN redistributions :
          redistributions[i] = redistributions[j] => i = j
    /\ (LotPaymentsRun /\ PastOmnibus) =>
          /\ Range(redistributions) = {g.source : g \in {x \in Groups : x.source \in DOMAIN pay_agg}}
          /\ \A g \in Groups :
                g.source \in DOMAIN pay_agg =>
                    RMul(pay_dict[g.source].Paid, RInt(Len(g.lots))) = pay_agg[g.source].Paid
    /\ ~PastOmnibus => (redistributions = <<>> /\ overlay = {})
    /\ OverlayDone =>
          \A f \in overlay : f.paid = PayGet(pay_dict, f.join_key, "Paid")

\* what holds of every step that redistributes or that computes the overlay
RedistributionStep ==
    /\ redistributions' # redistributions =>
          redistributions = <<>> /\ overlay = {} /\ overlay' = {}
    /\ pc' = "cb_agg" /\ pc = "overlay" =>
          PastOmnibus /\ pay_dict' = pay_dict /\ redistributions' = redistributions

\* C6: in a run at lot, census-block or ward level the omnibus redistribution
\* is applied exactly once per group, in the census path before the overlay
\* is computed, and never a second time to redistributed values.
C6_RedistributedOnceBeforeOverlay ==
    []RedistributionState /\ [][RedistributionStep]_vars

\* the overlay holds a fragment of a sibling lot carrying its split share
C6_Witness ==
    /\ OverlayDone
    /\ redistributions = <<"18702-29">>
    /\ \E f \in overlay : f.join_key = "18702-28" /\ f.paid = RInt(40000)

-----------------------------------------------------------------------------
(* Census-block and ward results.                                          *)

CensusOutput ==
    CensusPath /\ aggregate = "census-block" /\ pc \in {"write_geojson", "done"}
WardOutput == WardDone

\* C7: the census-block output holds one feature for every census block of
\* the registry; a block with no overlay fragment has paid = 0, billed = 0.
C7_EveryCensusBlockAppears ==
    /\ CensusDone =>
          /\ {r.GEOID : r \in cb_result} = {c.GEOID : c \in cb_gdf}
          /\ Cardinality(cb_result) = Cardinality(cb_gdf)
          /\ \A r \in cb_result :
                (\A f \in overlay : f.GEOID # r.GEOID) =>
                    r.paid = RZero /\ r.billed = RZero
    /\ CensusOutput =>
          /\ {f.properties.geoid : f \in features} = {c.GEOID : c \in cb_gdf}
          /\ Cardinality(features) = Cardinality(cb_gdf)
          /\ \A f \in features :
                (\A o \in overlay : o.GEOID # f.properties.geoid) =>
                    f.properties.paid = RZero /\ f.properties.billed = RZero
    /\ (CensusOutput /\ pc = "done") =>
          files[OutputName(year, aggregate)].features = features

\* the file holds a block with no fragment beside a block with payments
C7_Witness ==
    /\ CensusOutput /\ pc = "done"
    /\ \E f \in files[OutputName(year, aggregate)].features :
          /\ \A o \in overlay : o.GEOID # f.properties.geoid
          /\ f.properties.paid = RZero
    /\ \E f \in files[OutputName(year, aggregate)].features : RPos(f.properties.paid)

\* the planar footprint of census block g
BlockFootprint(g) == UNION {ToNjsp(c.geometry) : c \in {x \in cb_gdf : x.GEOID = g}}
PayingLots == {l \in lot_gdf : RPos(l.paid)}
PayingFragments(g) == {f \in overlay : f.GEOID = g /\ RPos(f.paid)}

\* C8: a census block's area_sqft is the sum of the intersection areas of the
\* fragments in it whose lot has paid > 0; fragments of lots with paid = 0
\* add nothing and a block with no paying fragment has area_sqft = 0.
C8_AreaFromPayingFragments ==
    CensusDone =>
        \A r \in cb_result :
            /\ r.area_sqft = RSum([f \in PayingFragments(r.GEOID) |-> f.intersection_area],
                                  PayingFragments(r.GEOID))
            /\ r.area_sqft = RSum([l \in PayingLots |->
                                      Area(LotFootprint(l) \cap BlockFootprint(r.GEOID))],
                                  PayingLots)
            /\ PayingFragments(r.GEOID) = {} => r.area_sqft = RZero

\* a block holds a fragment of a paying lot and a fragment of an unpaid lot
C8_Witness ==
    /\ CensusDone
    /\ \E r \in cb_result :
          /\ RPos(r.area_sqft)
          /\ \E f \in overlay : f.GEOID = r.GEOID /\ ~RPos(f.paid)
                                  /\ RPos(f.intersection_area)
          /\ \E f \in overlay : f.GEOID = r.GEOID /\ RPos(f.paid)

PerCapitaRule(paid, population, per_capita) ==
    /\ (per_capita = None) <=> (population = 0)
    /\ per_capita # DivFault
    /\ population > 0 => RMul(per_capita, RInt(population)) = paid

\* C9: at census-block and ward level paid_per_capita is absent exactly when
\* the population is 0 and is paid / population otherwise; it is never the
\* result of a division by zero.
C9_PerCapitaAbsentIffNoPopulation ==
    /\ CensusDone =>
          \A r \in cb_result : PerCapitaRule(r.paid, r.POP100, r.paid_per_capita)
    /\ WardDone =>
          \A r \in ward_result : PerCapitaRule(r.paid, r.population, r.paid_per_capita)
    /\ (CensusOutput \/ WardOutput) =>
          \A f \in features :
              /\ (f.properties.paid_per_capita = None) <=> (f.properties.population = 0)
              /\ f.properties.paid_per_capita # DivFault

\* the ward output holds a ward without population and a populated, paying one
C9_Witness ==
    /\ WardOutput /\ pc = "done"
    /\ \E f \in features :
          f.properties.population = 0 /\ f.properties.paid_per_capita = None
                                       /\ RPos(f.properties.paid)
    /\ \E f \in features :
          f.properties.population > 0 /\ f.properties.paid_per_capita # None
                                       /\ RPos(f.properties.paid_per_capita)

PerSqftRule(paid, area_sqft, per_sqft) ==
    /\ per_sqft # DivFault
    /\ RPos(area_sqft) => RMul(per_sqft, area_sqft) = paid
    /\ area_sqft = RZero => per_sqft = RZero

\* C10: at every level paid_per_sqft is paid / area_sqft when area_sqft > 0
\* and 0 when area_sqft is 0; no row divides by zero.
C10_PerSqftGuarded ==
    /\ (DirectPath /\ pc \in {"write", "done"}) =>
          \A f \in features :
              /\ PerSqftRule(f.row.paid, f.row.area_sqft, f.row.paid_per_sqft)
              /\ f.properties.paid_per_sqft = Round2(f.row.paid_per_sqft)
    /\ CensusDone =>
          \A r \in cb_result : PerSqftRule(r.paid, r.area_sqft, r.paid_per_sqft)
    /\ WardDone =>
          \A r \in ward_result : PerSqftRule(r.paid, r.area_sqft, r.paid_per_sqft)
    /\ (CensusOutput \/ WardOutput) =>
          \A f \in features : f.properties.paid_per_sqft # DivFault

\* the lot output holds a lot without area and a paying lot with area
C10_Witness ==
    /\ DirectPath /\ aggregate = "lot" /\ pc = "done"
    /\ \E f \in features :
          f.row.area_sqft = RZero /\ f.properties.paid_per_sqft = RZero
    /\ \E f \in features :
          RPos(f.row.area_sqft) /\ RPos(f.properties.paid_per_sqft)

-----------------------------------------------------------------------------
(* Ward roll-up.                                                           *)

\* the cb_result row of census block g
BlockRow(g) == CHOOSE r \in cb_result : r.GEOID = g

\* the sum of a float column of cb_result over the census blocks assigned to
\* ward w, taken over the whole registry
WardColumnSum(w, col) ==
    RSum([g \in GEOIDS |-> IF BlockRow(g).ward = w THEN BlockRow(g)[col] ELSE RZero],
         GEOIDS)

RECURSIVE WardPopulationSum(_, _)
WardPopulationSum(w, gs) ==
    IF gs = {} THEN 0
    ELSE LET g == CHOOSE x \in gs : TRUE
         IN  (IF BlockRow(g).ward = w THEN BlockRow(g).POP100 ELSE 0)
                 + WardPopulationSum(w, gs \ {g})

\* C11: for every ward of the ward registry there is one ward row, and its
\* paid, billed, population and area_sqft are the sums of those columns over
\* the census-block result rows assigned to the ward (0 when there is none);
\* the written ward features carry these figures (rounded).
C11_WardRollup ==
    WardDone =>
        /\ {r.ward : r \in ward_result} = {w.ward : w \in WardRegistry}
        /\ Cardinality(ward_result) = Cardinality(WardRegistry)
        /\ \A r \in ward_result :
              /\ r.paid = WardColumnSum(r.ward, "paid")
              /\ r.billed = WardColumnSum(r.ward, "billed")
              /\ r.area_sqft = WardColumnSum(r.ward, "area_sqft")
              /\ r.population = WardPopulationSum(r.ward, GEOIDS)
              /\ (\A c \in cb_result : c.ward # r.ward) =>
                    /\ r.paid = RZero /\ r.billed = RZero
                    /\ r.area_sqft = RZero /\ r.population = 0
              /\ \E f \in features :
                    /\ f.properties.ward = r.ward
                    /\ f.properties.paid = Round2(r.paid)
                    /\ f.properties.billed = Round2(r.billed)
                    /\ f.properties.area_sqft = Round1(r.area_sqft)
                    /\ f.properties.population = r.population
        /\ Cardinality(features) = Cardinality(ward_result)

\* ward A sums two paying census blocks, one of them populated and one not;
\* ward C holds no census block
C11_Witness ==
    /\ WardDone /\ pc = "done"
    /\ \E r \in ward_result :
          /\ r.ward = "A"
          /\ RPos(BlockRow("G1").paid) /\ RPos(BlockRow("G2").paid)
          /\ RLt(BlockRow("G1").paid, r.paid)
          /\ r.population > 0
    /\ \E r \in ward_result : r.ward = "C" /\ r.paid = RZero /\ r.population = 0

-----------------------------------------------------------------------------
(* Hole removal.                                                           *)

\* the number of interior rings enclosing area a
HoleCount(interiors, a) ==
    Cardinality({i \in DOMAIN interiors : interiors[i] = a})

\* polygon out is polygon inp with exactly the holes of at least 200000 kept
HolesFiltered(inp, out) ==
    /\ out.geom_type = "Polygon"
    /\ out.exterior = inp.exterior
    /\ Len(out.interiors) =
          Cardinality({i \in DOMAIN inp.interiors : inp.interiors[i] >= 200000})
    /\ \A a \in HoleAreas :
          HoleCount(out.interiors, a) =
              IF a >= 200000 THEN HoleCount(inp.interiors, a) ELSE 0

\* C12: _remove_small_holes keeps an interior hole if and only if its area is
\* at least 200000 (a hole of exactly 200000 stays, one of 199999 goes), for
\* a polygon and for every member polygon of a multi-polygon.
C12_HoleThreshold ==
    /\ MIN_HOLE_SQFT = 200000
    /\ \A i \in 1..(Len(hole_runs) - 1) :
          LET inp == hole_runs[i]
              out == hole_runs[i + 1]
          IN  /\ inp.geom_type = "Polygon" => HolesFiltered(inp, out)
              /\ inp.geom_type = "MultiPolygon" =>
                    /\ out.geom_type = "MultiPolygon"
                    /\ Len(out.geoms) = Len(inp.geoms)
                    /\ \A k \in DOMAIN inp.geoms :
                          HolesFiltered(inp.geoms[k], out.geoms[k])

\* a multi-polygon with a member holding a hole of 199999 and a hole of
\* 200000 has come back with that member holding the hole of 200000 only,
\* and a polygon with the same holes likewise
C12_Witness ==
    /\ Len(hole_runs) >= 2
    /\ hole_runs[1].geom_type = "MultiPolygon"
    /\ Len(hole_runs[1].geoms) = 2
    /\ hole_runs[1].geoms[1].interiors = <<199999, 200000>>
    /\ hole_runs[2].geoms[1].interiors = <<200000>>
    /\ hole_runs[1].geoms[2].interiors = <<200000, 199999>>
    /\ hole_runs[2].geoms[2].interiors = <<200000>>

-----------------------------------------------------------------------------
(* Records whose geometry cannot be read.                                  *)

\* the parcel rows whose geometry is in no known encoding or does not parse
BadRecords == {r \in parcels : r.enc \in {"unknown", "corrupt"}}
GoodRecords == {r \in parcels : get_geometry(r) \notin {NoGeometry, Raised}}

\* the run has ended and its file holds the FeatureCollection it returned
RunCompleted ==
    /\ pc = "done"
    /\ result.returned
    /\ OutputName(year, aggregate) \in DOMAIN files
    /\ files[OutputName(year, aggregate)] = result.value

\* C13: a parcel record whose geometry is in no known encoding, or whose
\* parsing throws, is skipped; at every aggregation level the run never
\* raises to the caller, and it goes on with the remaining records.
C13_BadRecordSkipped ==
    /\ BadRecords # {} => pc # "raised"
    /\ (payments_exists /\ pc = "done") => RunCompleted
    /\ (DirectPath /\ pc = "done") =>
          {f.key : f \in features} = {ParcelKey(aggregate, r) : r \in GoodRecords}

\* the lot keys with a fragment that cannot be parsed
LotsWithBadFragment == {ParcelKey("lot", r) : r \in BadRecords}

\* C14: a lot with at least one fragment that cannot be parsed is dropped
\* from the output: no lot feature and no lot row is produced for it, and it
\* is never emitted with a geometry built from its parseable fragments only.
C14_LotWithBadFragmentDropped ==
    /\ (DirectPath /\ aggregate = "lot" /\ pc \in {"write", "done"}) =>
          \A f \in features : f.key \notin LotsWithBadFragment
    /\ (CensusPath /\ pc \in {"overlay", "cb_agg", "wards", "cb_features",
                              "write_geojson", "done"}) =>
          \A l \in lot_gdf : l.join_key \notin LotsWithBadFragment

-----------------------------------------------------------------------------
(* Missing prerequisite.                                                   *)

\* C15: when the payments dataset is absent the run aborts before it loads
\* parcels or computes anything: it writes a message naming the step that
\* produces the dataset, writes no output file for any aggregation level
\* and returns an empty result.
C15_MissingPaymentsAborts ==
    ~payments_exists =>
        /\ pc \in {"start", "done"}
        /\ parcels = {} /\ ledger = {} /\ payments = {}
        /\ pay_agg = NoFiles /\ pay_dict = NoFiles
        /\ lot_gdf = {} /\ overlay = {} /\ cb_result = {} /\ features = {}
        /\ \A a \in AGGREGATE_CHOICES, y \in Years : OutputName(y, a) \notin DOMAIN files
        /\ "Loading parcels from" \notin Range(stderr)
        /\ pc = "start" => ~result.returned /\ stderr = <<>>
        /\ pc = "done" =>
              /\ result = [returned |-> TRUE, value |-> EmptyDict]
              /\ result.value # FeatureCollection({})
              /\ stderr = <<"Payments file not found: payments.parquet",
                            "Run: python -m jc_taxes.payments">>

\* a census-block run without the payments dataset has returned
C15_Witness ==
    /\ ~payments_exists
    /\ aggregate = "census-block"
    /\ pc = "done"
    /\ result.returned
    /\ "Run: python -m jc_taxes.payments" \in Range(stderr)

-----------------------------------------------------------------------------
(* Join misses.                                                            *)

\* the join keys of the year's ledger rows at level a
LedgerKeys(a) == {PaymentKey(a, r) : r \in YearRows}

\* key k has no payment record: no ledger row of the year carries it and no
\* omnibus redistribution creates one for it
NoPaymentRecord(a, k) ==
    /\ k \notin LedgerKeys(a)
    /\ ~(a = "lot" /\ \E g \in Groups : k \in Range(g.lots) /\ g.source \in LedgerKeys(a))

\* C16: a parcel, lot or block with a geometry whose join key has no payment
\* record in the selected year still yields a feature (a lot row in the
\* census path), with paid = 0, billed = 0 and paid_per_sqft = 0; the miss
\* is no error and removes nothing.
C16_JoinMissGivesZeros ==
    /\ (DirectPath /\ pc \in {"write", "done"}) =>
          \A r \in GoodRecords :
              \E f \in features :
                  /\ f.key = ParcelKey(aggregate, r)
                  /\ NoPaymentRecord(aggregate, f.key) =>
                        /\ f.row.paid = RZero /\ f.row.billed = RZero
                        /\ f.row.paid_per_sqft = RZero
                        /\ f.properties.paid = RZero /\ f.properties.billed = RZero
                        /\ f.properties.paid_per_sqft = RZero
    /\ (CensusPath /\ pc \in {"overlay", "cb_agg", "wards", "cb_features",
                              "write_geojson", "done"}) =>
          \A r \in GoodRecords :
              \E l \in lot_gdf :
                  /\ l.join_key = ParcelKey("lot", r)
                  /\ NoPaymentRecord("lot", l.join_key) =>
                        l.paid = RZero /\ l.billed = RZero
    /\ (DirectPath /\ pc = "done") => RunCompleted

\* the lot output holds lot 18702-29, paid for in another year only, with
\* zeros, beside a lot with a payment
C16_Witness ==
    /\ DirectPath /\ aggregate = "lot" /\ pc = "done"
    /\ \E r \in ledger : r.Year # year /\ PaymentKey("lot", r) = "18702-29"
    /\ \E f \in files[OutputName(year, aggregate)].features :
          /\ f.key = "18702-29"
          /\ RPos(f.row.area_sqft)
          /\ f.properties.paid = RZero /\ f.properties.paid_per_sqft = RZero
    /\ \E f \in files[OutputName(year, aggregate)].features : RPos(f.properties.paid)

-----------------------------------------------------------------------------
(* Fragmentation of a lot.                                                 *)

\* the parcel rows (fragments) dissolved into lot key
LotFragments(key) == {r \in GoodRecords : ParcelKey("lot", r) = key}

\* a fragment's own payment: the year's ledger rows of its unit key
UnitAmount(r, col) ==
    PayGet(PayAgg("unit", payments), ParcelKey("unit", r), col)

\* a fragment's planar footprint and area
FragmentFootprint(r) ==
    IF is_njsp(get_geometry(r)) THEN get_geometry(r) ELSE ToNjsp(get_geometry(r))
FragmentArea(r) == Area(FragmentFootprint(r))

\* the amount of lot key in census block c: the lot dissolved, then allocated
DissolvedAmount(key, c, col) ==
    LET frags == {f \in overlay : f.join_key = key /\ f.GEOID = c.GEOID}
    IN  RSum([f \in frags |-> f[col]], frags)

\* the amount of lot key in census block c: each fragment allocated with its
\* own payment and its own area, then summed per lot
FragmentwiseAmount(key, c, col) ==
    LET rs == LotFragments(key)
    IN  RSum([r \in rs |->
                 RMul(UnitAmount(r, col),
                      RDiv(Area(FragmentFootprint(r) \cap ToNjsp(c.geometry)),
                           FragmentArea(r)))], rs)

\* lot row l can be compared: it has several fragments, each with an area and
\* a unit key of its own, it is in no omnibus group, and the payments of its
\* fragments add up to the payment of the lot
Comparable(l) ==
    LET rs == LotFragments(l.join_key)
    IN  /\ Cardinality(rs) >= 2
        /\ \A r \in rs : RPos(FragmentArea(r))
        /\ \A r1, r2 \in rs :
              r1 # r2 => /\ ParcelKey("unit", r1) # ParcelKey("unit", r2)
                         /\ FragmentFootprint(r1) \cap FragmentFootprint(r2) = {}
        /\ \A g \in Groups : l.join_key \notin Range(g.lots)
        /\ RSum([r \in rs |-> UnitAmount(r, "Paid")], rs) = l.paid
        /\ RSum([r \in rs |-> UnitAmount(r, "Billed")], rs) = l.billed

\* the fragments of lot row l pay, and are billed, the same amount per
\* square foot
EqualRate(l) ==
    \A r1, r2 \in LotFragments(l.join_key) :
        /\ RMul(UnitAmount(r1, "Paid"), FragmentArea(r2))
              = RMul(UnitAmount(r2, "Paid"), FragmentArea(r1))
        /\ RMul(UnitAmount(r1, "Billed"), FragmentArea(r2))
              = RMul(UnitAmount(r2, "Billed"), FragmentArea(r1))

\* the footprint of a lot key taken from the parcel rows
ParcelsFootprint(key) == UNION {FragmentFootprint(r) : r \in LotFragments(key)}

\* C17 as stated: for every lot made of several fragments, dissolving then
\* allocating gives each census block the same amount as allocating each
\* fragment with its own payment and area and summing per lot.
C17_FragmentationInvariant ==
    OverlayDone =>
        \A l \in lot_gdf :
            Comparable(l) =>
                \A c \in cb_gdf :
                    /\ DissolvedAmount(l.join_key, c, "w_paid")
                          = FragmentwiseAmount(l.join_key, c, "Paid")
                    /\ DissolvedAmount(l.join_key, c, "w_billed")
                          = FragmentwiseAmount(l.join_key, c, "Billed")

\* C17 amended: for every lot whose dissolved footprint has a positive area,
\* the amount of the lot in a census block is the summed payment (billing) of
\* the lot times the share of the dissolved footprint lying in the block,
\* however the footprint is cut into fragments; for a lot in no omnibus group
\* made of two or more fragments with positive areas, pairwise disjoint
\* footprints and distinct unit keys, whose payments add up to the lot's, it
\* equals the fragment-wise allocation whenever the fragments pay, and are
\* billed, the same amount per square foot. Nothing is stated for fragments
\* of different rates: the two allocations may then agree or not.
C17_DissolvedShareAndEqualRate ==
    OverlayDone =>
        \A l \in lot_gdf :
            \A c \in cb_gdf :
                /\ RPos(Area(ParcelsFootprint(l.join_key))) =>
                      /\ DissolvedAmount(l.join_key, c, "w_paid")
                            = RMul(l.paid,
                                   RDiv(Area(ParcelsFootprint(l.join_key)
                                                \cap ToNjsp(c.geometry)),
                                        Area(ParcelsFootprint(l.join_key))))
                      /\ DissolvedAmount(l.join_key, c, "w_billed")
                            = RMul(l.billed,
                                   RDiv(Area(ParcelsFootprint(l.join_key)
                                                \cap ToNjsp(c.geometry)),
                                        Area(ParcelsFootprint(l.join_key))))
                /\ (Comparable(l) /\ EqualRate(l)) =>
                      /\ DissolvedAmount(l.join_key, c, "w_paid")
                            = FragmentwiseAmount(l.join_key, c, "Paid")
                      /\ DissolvedAmount(l.join_key, c, "w_billed")
                            = FragmentwiseAmount(l.join_key, c, "Billed")

\* lot 100-5, two units of equal rate in two census blocks, has been allocated
C17_Witness ==
    /\ OverlayDone
    /\ \E l \in lot_gdf :
          /\ Comparable(l) /\ EqualRate(l)
          /\ RPos(l.paid)
          /\ Cardinality({f.GEOID : f \in FragmentsOf(l)}) = 2
          /\ \A c \in cb_gdf :
                DissolvedAmount(l.join_key, c, "w_paid")
                    = FragmentwiseAmount(l.join_key, c, "Paid")

-----------------------------------------------------------------------------
(* Lot-level payments.                                                     *)

\* the year's ledger rows of a block and lot, whatever their qualifier
LotLedgerRows(block, lot) ==
    {r \in YearRows : Strip(r.Block) = block /\ Strip(r.Lot) = lot}
LotLedgerSum(block, lot, col) ==
    RSum([r \in LotLedgerRows(block, lot) |-> RInt(r[col])], LotLedgerRows(block, lot))

OmnibusLots == UNION {Range(g.lots) : g \in Groups}

\* the block and lot of the parcel rows dissolved into a lot key
LotOfKey(key) ==
    LET r == CHOOSE x \in parcels : ParcelKey("lot", x) = key
    IN  [block |-> Strip(r.block), lot |-> Strip(r.lot)]

\* C18: at lot level the paid (billed) of a lot outside the omnibus groups is
\* the sum of the paid (billed) of all ledger rows of the selected year that
\* share its block and lot, whatever their qualifier, and the unit fragments
\* of a lot yield exactly one lot record.
C18_LotSumsLedgerRows ==
    /\ (DirectPath /\ aggregate = "lot" /\ pc \in {"write", "done"}) =>
          /\ \A f \in features :
                f.key \notin OmnibusLots =>
                    /\ f.row.paid = LotLedgerSum(f.properties.block, f.properties.lot, "Paid")
                    /\ f.row.billed = LotLedgerSum(f.properties.block, f.properties.lot, "Billed")
                    /\ f.properties.paid = Round2(f.row.paid)
          /\ \A f1, f2 \in features :
                (f1.properties.block = f2.properties.block
                    /\ f1.properties.lot = f2.properties.lot) => f1 = f2
          /\ Cardinality(features)
                = Cardinality({<<Strip(r.block), Strip(r.lot)>> : r \in GoodRecords})
    /\ (CensusPath /\ pc \in {"overlay", "cb_agg", "wards", "cb_features",
                              "write_geojson", "done"}) =>
          /\ \A l \in lot_gdf :
                l.join_key \notin OmnibusLots =>
                    /\ l.paid = LotLedgerSum(LotOfKey(l.join_key).block,
                                             LotOfKey(l.join_key).lot, "Paid")
                    /\ l.billed = LotLedgerSum(LotOfKey(l.join_key).block,
                                               LotOfKey(l.join_key).lot, "Billed")
          /\ \A l1, l2 \in lot_gdf : l1.join_key = l2.join_key => l1 = l2
          /\ Cardinality(lot_gdf)
                = Cardinality({<<Strip(r.block), Strip(r.lot)>> : r \in GoodRecords})

\* units C0001 and C0002 of lot 100-5, paying 1000 and 3000, have given one
\* lot feature with paid 4000
C18_Witness ==
    /\ DirectPath /\ aggregate = "lot" /\ pc = "done"
    /\ Cardinality({r \in GoodRecords : ParcelKey("lot", r) = "100-5"}) = 2
    /\ \E r \in YearRows : r.Qualifier = "C0001" /\ r.Paid = 1000
    /\ \E r \in YearRows : r.Qualifier = "C0002" /\ r.Paid = 3000
    /\ Cardinality(features) = 1
    /\ \E f \in features : f.key = "100-5" /\ f.properties.paid = RInt(4000)

-----------------------------------------------------------------------------
(* Output file names.                                                      *)

\* C19: the output file name is a function of (tax year, aggregation level)
\* only and is injective over the five supported levels: two runs with the
\* same pair write the same file, two runs that differ in the year or in the
\* level never do.
C19_FileNameInjective ==
    \A i, j \in DOMAIN name_runs :
        (name_runs[i].year = name_runs[j].year
            /\ name_runs[i].aggregate = name_runs[j].aggregate)
        <=> name_runs[i].output = name_runs[j].output

\* two runs of the year 2024, at census-block and at lot level, have written
\* different files
C19_Witness ==
    /\ Len(name_runs) = 2
    /\ name_runs[1].year = 2024 /\ name_runs[2].year = 2024
    /\ name_runs[1].aggregate = "census-block"
    /\ name_runs[2].aggregate = "lot"
    /\ name_runs[1].output = "taxes-2024-census-blocks.geojson"
    /\ name_runs[2].output = "taxes-2024-lots.geojson"

-----------------------------------------------------------------------------
(* Ward features.                                                          *)

\* the registry row of a ward
RegistryWard(name) == CHOOSE w \in WardRegistry : w.ward = name

\* C20: every ward feature written at ward level carries the registry
\* boundary of its ward as the property boundary, whether or not a merged
\* boundary, a trimmed lot footprint or a block-dissolved outline exists.
C20_BoundaryAlwaysAttached ==
    /\ WardOutput =>
          /\ {f.properties.ward : f \in features} = {w.ward : w \in WardRegistry}
          /\ \A f \in features :
                /\ f.properties.boundary # NoGeometry
                /\ f.properties.boundary = RegistryWard(f.properties.ward).geometry
    /\ (WardOutput /\ pc = "done") =>
          /\ OutputName(year, "ward") \in DOMAIN files
          /\ \A f \in files[OutputName(year, "ward")].features :
                f.properties.boundary = RegistryWard(f.properties.ward).geometry

\* the ward file holds a ward with all three alternate geometries, a ward
\* with a merged boundary only and a ward with none of them
C20_Witness ==
    /\ WardOutput /\ pc = "done"
    /\ \E f \in files[OutputName(year, "ward")].features :
          /\ f.properties.lots # NoGeometry /\ f.properties.blocks # NoGeometry
          /\ f.geometry # f.properties.boundary
    /\ \E f \in files[OutputName(year, "ward")].features :
          /\ f.properties.lots = NoGeometry /\ f.properties.blocks = NoGeometry
          /\ f.geometry # f.properties.boundary
    /\ \E f \in files[OutputName(year, "ward")].features :
          /\ f.properties.lots = NoGeometry /\ f.properties.blocks = NoGeometry
          /\ f.geometry = f.properties.boundary

-----------------------------------------------------------------------------
(* The payment ledger.                                                     *)

\* the sum of the source's Paid amounts of one account and year
RECURSIVE SourcePaid(_, _, _)
SourcePaid(details, y, n) ==
    IF n = 0 THEN 0
    ELSE SourcePaid(details, y, n - 1)
         + (IF details[n].TaxYear = y THEN details[n].Paid ELSE 0)

\* the Details of the cached response of an account
DetailsOf(account) ==
    LET k == CHOOSE k \in DOMAIN extract.json_files :
                 extract.json_files[k].accountInquiryVM.AccountNumber = account
    IN  extract.json_files[k].accountInquiryVM.Details

\* C21: every Paid value extract_payments emits into the payment ledger is
\* non-negative: it is the magnitude of the account's summed, negative-signed
\* source amounts of the year, in the records and in the file written.
C21_PaidNonNegative ==
    /\ \A i \in DOMAIN extract.records :
          LET r == extract.records[i]
              details == DetailsOf(r.AccountNumber)
          IN  /\ r.Paid >= 0
              /\ r.Paid = Abs(SourcePaid(details, r.Year, Len(details)))
    /\ extract.output.exists => extract.output.rows = extract.records

\* the ledger is written with a record of paid 600 whose source amount is
\* -600, and one of paid 350 whose source amounts are -600 and 250
C21_Witness ==
    /\ extract.output.exists
    /\ \E i \in DOMAIN extract.output.rows :
          LET r == extract.output.rows[i]
              details == DetailsOf(r.AccountNumber)
          IN  /\ r.Paid = 600
              /\ SourcePaid(details, r.Year, Len(details)) = -600
    /\ \E i \in DOMAIN extract.output.rows :
          LET r == extract.output.rows[i]
              details == DetailsOf(r.AccountNumber)
          IN  /\ r.Paid = 350
              /\ SourcePaid(details, r.Year, Len(details)) = -350

-----------------------------------------------------------------------------
(* Ward boundary and ward footprint.                                       *)

\* the overlay fragments mapped to ward w, and those of them of paying lots
WardFragments(w) == {g \in overlay : g.ward = w}
WardPayingFragments(w) == {g \in WardFragments(w) : RPos(g.paid)}
Footprint(frags) == ToWgs84(UNION {g.geometry : g \in frags})

\* the land no lot covers that buffering and hole removal may add to a shape
UncoveredLand ==
    {s.halves[i] : s \in Streets, i \in 1..2} \cup {e.cell : e \in Enclosures}

\* C22: for every ward the merged boundary is built from all overlay
\* fragments mapped to the ward, fragments of lots with paid = 0 included,
\* and the trimmed footprint only from the fragments of lots with paid > 0:
\* a fragment of an unpaid lot is in the input of the merged boundary and not
\* in the input of the trimmed footprint.  The merged boundary written covers
\* every fragment of the ward and beyond them only streets and enclosed land;
\* the trimmed footprint written is the union of the paying fragments.
C22_MergedFromAllTrimmedFromPaying ==
    /\ CensusDone =>
          \A c \in cb_gdf :
              /\ all_overlay_ward(c.ward) = WardFragments(c.ward)
              /\ paying_proj_ward(c.ward) = WardPayingFragments(c.ward)
              /\ \A g \in WardFragments(c.ward) :
                    ~RPos(g.paid) =>
                        g \in all_overlay_ward(c.ward) /\ g \notin paying_proj_ward(c.ward)
    /\ WardOutput =>
          \A ft \in features :
              LET w == ft.properties.ward
              IN  /\ WardFragments(w) # {} =>
                        /\ Footprint(WardFragments(w)) \subseteq ft.geometry
                        /\ \A p \in ft.geometry \ Footprint(WardFragments(w)) :
                              p[1] \in UncoveredLand
                  /\ WardPayingFragments(w) # {} =>
                        ft.properties.lots = Footprint(WardPayingFragments(w))
                  /\ WardPayingFragments(w) = {} => ft.properties.lots = NoGeometry

\* a ward feature is written whose ward has a fragment of an unpaid lot next
\* to fragments of paying lots: the unpaid fragment lies in the merged
\* boundary and outside the trimmed footprint
C22_Witness ==
    /\ WardOutput /\ pc = "done"
    /\ \E ft \in files[OutputName(year, "ward")].features :
          LET w == ft.properties.ward
          IN  /\ WardPayingFragments(w) # {}
              /\ \E g \in WardFragments(w) :
                    /\ g.paid = RZero
                    /\ ToWgs84(g.geometry) \subseteq ft.geometry
                    /\ ToWgs84(g.geometry) \cap ft.properties.lots = {}
                    /\ ft.properties.lots # NoGeometry

-----------------------------------------------------------------------------
(* Output under interrupts.                                                *)

\* the output file of the run is as it was when the run started
OutputAsBefore ==
    IF OutputName(year, aggregate) \in DOMAIN before
    THEN /\ OutputName(year, aggregate) \in DOMAIN files
         /\ files[OutputName(year, aggregate)] = before[OutputName(year, aggregate)]
    ELSE OutputName(year, aggregate) \notin DOMAIN files

\* the output file of the run is the complete FeatureCollection
OutputComplete ==
    /\ OutputName(year, aggregate) \in DOMAIN files
    /\ files[OutputName(year, aggregate)] = FeatureCollection(features)

\* C23: the output file is touched only after every feature of the run has
\* been computed, and whatever the point at which an interrupt ends the run,
\* the output file is either the complete FeatureCollection or as it was
\* before the run.
C23_NoPartialOutput ==
    /\ ~OutputAsBefore => pc \in {"dump", "closed", "return", "done", "interrupted"}
    /\ pc = "interrupted" => OutputAsBefore \/ OutputComplete

-----------------------------------------------------------------------------
(* Paging of search_by_block.                                              *)

\* the first page that is empty or reaches the total
StopPage(server) ==
    CHOOSE p \in 1..MaxPages :
        /\ server.listed[p] = 0 \/ p * 10 >= server.recCount
        /\ \A q \in 1..(p - 1) : server.listed[q] # 0 /\ q * 10 < server.recCount

\* the accounts of pages 1..n, in page order
RECURSIVE PagesUpTo(_, _)
PagesUpTo(server, n) ==
    IF n = 0 THEN <<>>
    ELSE PagesUpTo(server, n - 1) \o Listing(n, server.listed[n])

\* the pages requested so far are 1, 2, ... in order, each once and none
\* after the stop page; the accounts yielded are those of the pages before
\* the last one requested and then the first of that page, in order; a
\* search that ended of itself ended on the stop page with all its accounts
SearchInOrder ==
    LET n == Len(search.requested)
    IN  /\ search.requested = [i \in 1..n |-> i]
        /\ n <= StopPage(search.server)
        /\ n = 0 => search.yielded = <<>>
        /\ n > 0 =>
              \E k \in 0..search.server.listed[n] :
                  /\ search.yielded = PagesUpTo(search.server, n - 1)
                                          \o SubSeq(Listing(n, search.server.listed[n]), 1, k)
                  /\ search.pc \in {"loop", "done"} => k = search.server.listed[n]
        /\ search.pc = "done" => n = StopPage(search.server)

\* C24: search_by_block terminates for every server that reports a finite
\* total; it yields the accounts of pages 1, 2, ... in page order and stops
\* after the first page p that is empty or has p * 10 >= total, requesting no
\* page after that one and each page at most once.  A search the caller has
\* not dropped comes to its end.
C24_SearchTerminatesInOrder ==
    []SearchInOrder /\ <>(search.pc \in {"done", "closed"})

\* a search of three pages has ended on the page that reaches the total of
\* 21, having yielded the accounts of the pages 1, 2, 3 in order
C24_Witness ==
    /\ search.pc = "done"
    /\ search.server.recCount = 21
    /\ search.requested = <<1, 2, 3>>
    /\ search.yielded = <<<<1, 1>>, <<1, 2>>, <<2, 1>>, <<3, 1>>, <<3, 2>>>>

-----------------------------------------------------------------------------
(* The cache of get_account_details.                                       *)

\* the seconds a ttl argument stands for
TtlSeconds(ttl) ==
    CASE ttl.type = "int" -> ttl.number
      [] ttl.text = "2s"  -> 2
      [] ttl.text = "1m"  -> 60
      [] ttl.text = "3"   -> 3

\* when call c started, a cache file of its account existed and was not
\* expired
Fresh(c) ==
    /\ c.account \in DOMAIN c.cache_before
    /\ \/ c.ttl.type = "None"
       \/ c.now - c.cache_before[c.account].mtime <= TtlSeconds(c.ttl)

\* call c made no HTTP request and ended with the cached response, handed to
\* AccountResponse.model_validate
ServedFromCache(c) ==
    /\ c.requests = 0
    /\ c.account \in DOMAIN c.cache_before
    /\ c.ended = Validate(c.cache_before[c.account].data).ended
    /\ c.value = Validate(c.cache_before[c.account].data).value

\* C25: with use_cache true, get_account_details serves the cached response
\* without any HTTP request if and only if a cache file of the account exists
\* and is not expired (ttl None, or the age of the file at most ttl); an
\* expired or missing entry leads to a network fetch.
C25_CacheServedIffFresh ==
    \A i \in DOMAIN client.calls :
        LET c == client.calls[i]
        IN  c.use_cache =>
                /\ ServedFromCache(c) <=> Fresh(c)
                /\ ~Fresh(c) => c.requests >= 1

\* a call with ttl "2s" is served from a cache file that is exactly two
\* seconds old
C25_Witness ==
    \E i \in DOMAIN client.calls :
        LET c == client.calls[i]
        IN  /\ c.use_cache
            /\ c.ttl.text = "2s"
            /\ c.account \in DOMAIN c.cache_before
            /\ c.now - c.cache_before[c.account].mtime = 2
            /\ ServedFromCache(c)
            /\ c.ended = "returned"
            /\ c.value = c.cache_before[c.account].data

\* the fetch of call c ended in an HTTP status error, in an invalid-account
\* response
StatusError(c) == c.answer = "status_error"
InvalidAccount(c) == c.answer = "invalid"

\* C26: every cache file written by the client holds a response whose
\* validAccountNumber is true; a fetch that ends in an HTTP status error or
\* in an invalid-account response returns None and leaves the cache entry of
\* the account unchanged; with use_cache false the cache is neither read nor
\* written.
C26_CacheHoldsValidResponses ==
    /\ \A a \in DOMAIN client.cache_dir :
          client.cache_dir[a].data.validAccountNumber
    /\ \A i \in DOMAIN client.calls :
          LET c == client.calls[i]
          IN  /\ (StatusError(c) \/ InvalidAccount(c)) =>
                    /\ c.ended = "returned" /\ c.value = None
                    /\ client.cache_dir = c.cache_before
              /\ ~c.use_cache =>
                    /\ ~c.cache_read /\ ~c.saved
                    /\ client.cache_dir = c.cache_before

-----------------------------------------------------------------------------
(* Resuming enumerate_accounts.                                            *)

\* the rows of the index file under block b, in order
RECURSIVE RowsOfBlock(_, _)
RowsOfBlock(rows, b) ==
    IF rows = <<>> THEN <<>>
    ELSE (IF Head(rows).Block = b THEN <<Head(rows)>> ELSE <<>>)
             \o RowsOfBlock(Tail(rows), b)

\* the index file holds the accounts of block b exactly once
SavedOnce(b) == RowsOfBlock(enum.file.rows, b) = BlockAccounts(b, enum.server[b])

\* the blocks completed by the runs so far
CompletedBlocks ==
    UNION {{enum.runs[j].completed[k] : k \in DOMAIN enum.runs[j].completed} :
              j \in DOMAIN enum.runs}

\* the blocks completed when the last run ended: those of the file it started
\* from and those it searched to the end
CompletedBefore ==
    ThisRun.existing_blocks \cup {ThisRun.completed[k] : k \in DOMAIN ThisRun.completed}

\* the last run ended on an interrupt or an exception raised inside the try
\* statement whose except clause ran to its end, on any interrupt
InterruptedInTry ==
    ThisRun.pc = "ended" /\ ThisRun.ended \in {"KeyboardInterrupt", "Exception"}
InterruptedAnywhere == ThisRun.pc = "ended" /\ ThisRun.ended # "Done"

\* a resumed run searches none of the blocks of the file it started from, and
\* when a run ends normally the index holds the accounts of every block
\* exactly once
ResumeSkipsSaved ==
    /\ \A j \in DOMAIN enum.runs :
          {enum.runs[j].searched[k] : k \in DOMAIN enum.runs[j].searched}
              \cap enum.runs[j].existing_blocks = {}
    /\ \A k \in DOMAIN enum.file.rows :
          enum.file.rows[k].Block \in CompletedBlocks
    /\ (ThisRun.pc = "ended" /\ ThisRun.ended = "Done") =>
          \A k \in DOMAIN enum.blocks : SavedOnce(enum.blocks[k])

\* C27 as stated: when enumerate_accounts is interrupted (KeyboardInterrupt
\* or any exception) and run again with the same output file, the accounts of
\* all blocks completed before the interrupt are saved, the resumed run
\* searches none of the blocks of the saved file, and the final index holds
\* each block's accounts exactly once.
C27_InterruptSavesCompleted ==
    /\ InterruptedAnywhere => \A b \in CompletedBefore : SavedOnce(b)
    /\ ResumeSkipsSaved

\* C27, amended: the same for a KeyboardInterrupt or an exception raised
\* inside the try statement, that is while the loop over the blocks and the
\* client's with block run, when the except clause runs to its end; a
\* KeyboardInterrupt that arrives in the else clause, or while an except
\* clause runs, ends the run with the index as it is at that moment, written
\* or not.
C27_InterruptInTrySavesCompleted ==
    /\ InterruptedInTry => \A b \in CompletedBefore : SavedOnce(b)
    /\ ResumeSkipsSaved

\* a run was interrupted while it searched its second block, the run after it
\* searched the blocks missing from the saved file, wrote the checkpoint of
\* its 50th block and ended normally
C27_Witness ==
    /\ Len(enum.runs) = 2
    /\ enum.blocks = ParcelBlocks
    /\ enum.server["100"] = 2
    /\ enum.runs[1].ended = "KeyboardInterrupt"
    /\ enum.runs[1].completed = <<"100">>
    /\ enum.runs[1].searched = <<"100", "101">>
    /\ enum.runs[2].existing_blocks = {"100"}
    /\ enum.runs[2].searched = Tail(ParcelBlocks)
    /\ enum.runs[2].ended = "Done"
    /\ \A k \in DOMAIN ParcelBlocks : SavedOnce(ParcelBlocks[k])
    /\ Len(enum.file.rows) > Len(ParcelBlocks)

-----------------------------------------------------------------------------
(* Reference system of the lot geometries.                                 *)

\* the lot rows have been built
LotGdfBuilt == pc = "overlay"

\* every coordinate of the geometry is in WGS84 degrees
InWgs84(geom) == \A p \in geom : p[2] = "deg"

\* C28: every lot geometry of the GeoDataFrame returned by _build_lot_gdf is
\* in WGS84, also that of a lot whose fragments arrive in different
\* reference systems: the test of the bounding-box minimum X > 1000 on the
\* dissolved geometry converts all of its coordinates.
C28_LotGeometriesInWgs84 ==
    LotGdfBuilt => \A l \in lot_gdf : InWgs84(l.geometry)

-----------------------------------------------------------------------------
(* Hole removal applied again.                                             *)

\* the interior rings of at least the threshold, in their order
LargeHoles(polygon) == SelectSeq(polygon.interiors, LAMBDA r : r >= MIN_HOLE_SQFT)

\* polygon out has the exterior ring and the large holes of polygon inp
SameExteriorAndLargeHoles(inp, out) ==
    /\ out.exterior = inp.exterior
    /\ LargeHoles(out) = LargeHoles(inp)

\* result out of one application differs from its argument inp in
\* sub-threshold holes only
OnlySmallHolesChanged(inp, out) ==
    CASE inp.geom_type = "Polygon" /\ ~is_empty(inp) ->
            out.geom_type = "Polygon" /\ SameExteriorAndLargeHoles(inp, out)
      [] inp.geom_type = "MultiPolygon" /\ ~is_empty(inp) ->
            /\ out.geom_type = "MultiPolygon"
            /\ DOMAIN out.geoms = DOMAIN inp.geoms
            /\ \A k \in DOMAIN inp.geoms :
                  SameExteriorAndLargeHoles(inp.geoms[k], out.geoms[k])
      [] OTHER -> out = inp

\* C29: _remove_small_holes is idempotent and changes nothing but
\* sub-threshold holes: applied twice it gives what it gives applied once,
\* the exterior rings and every hole of at least 200000 are unchanged, and an
\* empty, None or non-polygonal geometry comes back unchanged.
C29_HoleRemovalIdempotent ==
    /\ Len(hole_runs) >= 3 => hole_runs[3] = hole_runs[2]
    /\ \A i \in 1..(Len(hole_runs) - 1) :
          OnlySmallHolesChanged(hole_runs[i], hole_runs[i + 1])

\* the function has been applied twice to a multi-polygon with two large
\* holes and a small one: the first result has lost the small hole, the
\* second result is the first
C29_Witness ==
    /\ Len(hole_runs) = 3
    /\ hole_runs[1] = MultiPolygon(<<Polygon(9000000, <<750000, 199999>>),
                                     Polygon(9000000, <<200000>>)>>)
    /\ hole_runs[2] = MultiPolygon(<<Polygon(9000000, <<750000>>),
                                     Polygon(9000000, <<200000>>)>>)
    /\ hole_runs[3] = hole_runs[2]

-----------------------------------------------------------------------------
(* Omnibus group without a source payment.                                 *)

\* the omnibus loop applies to the run and is behind it
OmnibusLoopDone ==
    PastOmnibus /\ ((DirectPath /\ OmnibusApplies(aggregate)) \/ CensusPath)

\* the source lot of the group has no payment record in the selected year
SourceUnpaid(group) == group.source \notin DOMAIN pay_agg

\* C30: when the source lot key of an omnibus group has no payment record in
\* the selected year, redistribution is a no-op for the group: no sibling key
\* is created and every sibling key keeps the paid and billed values it had.
C30_MissingSourceNoOp ==
    OmnibusLoopDone =>
        \A i \in DOMAIN OMNIBUS_LOT_GROUPS :
            LET group == OMNIBUS_LOT_GROUPS[i]
            IN  SourceUnpaid(group) =>
                    /\ \A k \in Range(group.lots) :
                          /\ k \in DOMAIN pay_dict <=> k \in DOMAIN pay_agg
                          /\ k \in DOMAIN pay_agg => pay_dict[k] = pay_agg[k]
                    /\ \A j \in DOMAIN redistributions :
                          redistributions[j] # group.source

\* at lot level the loop has run over a ledger with a payment of 600 for the
\* sibling 18702-27 and none for the source 18702-29: the sibling keeps its
\* 600 and the sibling 18702-28 has no record
C30_Witness ==
    /\ OmnibusLoopDone /\ aggregate = "lot"
    /\ "18702-29" \notin DOMAIN pay_agg
    /\ "18702-27" \in DOMAIN pay_dict
    /\ pay_dict["18702-27"].Paid = RInt(600)
    /\ pay_dict["18702-27"].Billed = RInt(700)
    /\ "18702-28" \notin DOMAIN pay_dict
    /\ redistributions = <<>>

====
